---- MODULE Spec2Model ----
(***************************************************************************)
(* Skywalker: the scan orchestrator of src/skywalker/main.py.              *)
(*                                                                         *)
(*  - run_audit_for_project: one project, the requested kinds in program   *)
(*    order, with a thread-pool fan-out per zonal/regional kind            *)
(*    (specifications Spec and SpecFanout);                                *)
(*  - main: the multi-project batch, its executor, the as_completed loop   *)
(*    and the KeyboardInterrupt handler (SpecBatch, FairSpecBatch).        *)
(*                                                                         *)
(* A walker call is identified by <<walker name, scope>>.  Whether the     *)
(* provider makes a call raise is an input of the run (faulty).            *)
(***************************************************************************)
EXTENDS Integers, Sequences, FiniteSets, TLC

VARIABLES
    \* ---- inputs of run_audit_for_project ----
    services,        \* requested kinds
    regions,         \* region list
    faulty,          \* walker calls that raise to their call site
    \* ---- state of run_audit_for_project ----
    pc,              \* position in run_audit_for_project
    queue,           \* work items submitted to the current pool, not started
    running,         \* scopes whose walker call is in flight
    acc,             \* run_results / gke_results / vertex_results
    compute_report,  \* GCPComputeReport being filled
    report_services, \* report_data["services"]
    calls,           \* number of invocations of each walker call
    warnings,        \* warnings printed or logged, in order
    \* ---- inputs of main ----
    target_projects, \* projects of the batch
    concurrency,     \* args.concurrency
    failing,         \* projects whose run_audit_for_project raises
    \* ---- state of main ----
    mpc,             \* position in main
    submitted,       \* number of executor.submit calls made
    fut,             \* state of each project's future
    yielded,         \* futures already handed out by as_completed
    all_reports,     \* all_reports
    errors,          \* "Failed to audit project" lines, in order
    progress,        \* progress.update(task, advance=1) count
    interrupted,     \* a KeyboardInterrupt was raised in the main thread
    exit_code,       \* process exit status, -1 while running
    emitted,         \* reports written by the output section
    \* ---- the fan-out pools of the audits of a batch ----
    blocked,         \* projects whose walker calls do not return
    zone_queue,      \* per project: zone calls submitted to its pool, not started
    zone_running,    \* per project: zone calls in flight
    zone_done,       \* per project: zone calls completed
    \* ---- inputs of fetch_fleet_metrics / _fetch_performance_metrics ----
    ts_input,        \* per metric label: the time series the provider returns
    ts_fail,         \* the query that raises, and after how many series
    \* ---- state of fetch_fleet_metrics / _fetch_performance_metrics ----
    m_pc,            \* position in fetch_fleet_metrics
    m_label,         \* index of the current entry of queries
    m_pos,           \* number of series of the current query already read
    queried,         \* labels whose list_time_series call was issued
    fleet_data,      \* fleet_data.values(), in insertion order
    m_logged,        \* labels named by logger.warning / logger.error
    metrics_map,     \* result of _fetch_performance_metrics
    \* ---- inputs of run_fleet_monitor ----
    args,            \* args.json, args.csv, args.html, args.limit, args.org_id
    metrics_data,    \* result of monitoring.fetch_fleet_metrics
    asset_inventory, \* per scope: the instances the Asset API holds
    asset_fail,      \* per scope: after how many resources the search raises, -1 never
    client_error,    \* AssetServiceClient() cannot be constructed
    \* ---- state of run_fleet_monitor ----
    mon_pc,          \* position in run_fleet_monitor
    pending_scans,   \* projects whose search future as_completed has not yielded
    assets,          \* assets
    search_calls,    \* per scope searched: the outcome of search_all_instances
    enriched_data,   \* enriched_data
    outputs,         \* rows written to the table, stdout JSON, CSV and HTML
    mon_log,         \* messages printed on log_console
    \* ---- inputs of run_zombie_hunt ----
    hunt_projects,   \* projects
    hunt_inventory,  \* per project: the disks, addresses, buckets and egress series it holds
    hunt_fail,       \* the detector task whose provider call raises, where and after how many items
    \* ---- state of run_zombie_hunt ----
    z_pc,            \* position in run_zombie_hunt
    hunt_pos,        \* per submitted detector task: number of items it has looked at
    hunt_done,       \* detector tasks that have returned
    zombies,         \* hunter.zombies
    hunt_log,        \* detector tasks named by logger.debug
    z_output,        \* what the report section printed
    \* ---- inputs of _install_agent / _fix_ops_agent ----
    fix_input,       \* args.monitor, the fleet metrics, the resolved assets, the operator's answer, ssh result
    \* ---- state of _install_agent / _fix_ops_agent ----
    fix_pc,          \* position in _fix_ops_agent
    candidates,      \* candidates
    confirm_asked,   \* number of Confirm.ask prompts shown
    install_queue,   \* _install_agent calls submitted to the pool, not yet run
    agent_calls,     \* candidates _install_agent was called with, in order
    installs,        \* subprocess.run launches, in order
    fix_messages,    \* strings returned by _install_agent, in order
    \* ---- the provider behind a decorated walker ----
    w_provider,      \* what a walker attempt meets: the resources of each scope and the current fault
    \* ---- state of calls of a decorated walker ----
    w_pc,            \* "idle" between calls, "attempt" inside the retry loop
    w_call,          \* the walker and scope of the call in progress
    w_attempts,      \* attempts of the call in progress
    w_contacts,      \* provider requests of the call in progress
    w_cache,         \* joblib store: per walker and scope, the cached return value
    w_last,          \* outcome at the call site of the call that ended last
    w_count          \* calls and provider changes so far

auditVars == <<services, regions, faulty, pc, queue, running, acc,
               compute_report, report_services, calls, warnings>>
batchVars == <<target_projects, concurrency, failing, mpc, submitted, fut,
               yielded, all_reports, errors, progress, interrupted,
               exit_code, emitted>>
poolVars == <<blocked, zone_queue, zone_running, zone_done>>
metricVars == <<ts_input, ts_fail, m_pc, m_label, m_pos, queried, fleet_data,
                m_logged, metrics_map>>
monitorVars == <<args, metrics_data, asset_inventory, asset_fail, client_error,
                 mon_pc, pending_scans, assets, search_calls, enriched_data, outputs,
                 mon_log>>
zombieVars == <<hunt_projects, hunt_inventory, hunt_fail, z_pc, hunt_pos, hunt_done,
                zombies, hunt_log, z_output>>
fixVars == <<fix_input, fix_pc, candidates, confirm_asked, install_queue, agent_calls,
             installs, fix_messages>>
walkerVars == <<w_provider, w_pc, w_call, w_attempts, w_contacts, w_cache, w_last, w_count>>
vars == <<services, regions, faulty, pc, queue, running, acc,
          compute_report, report_services, calls, warnings,
          target_projects, concurrency, failing, mpc, submitted, fut,
          yielded, all_reports, errors, progress, interrupted,
          exit_code, emitted,
          blocked, zone_queue, zone_running, zone_done,
          ts_input, ts_fail, m_pc, m_label, m_pos, queried, fleet_data,
          m_logged, metrics_map,
          args, metrics_data, asset_inventory, asset_fail, client_error,
          mon_pc, pending_scans, assets, search_calls, enriched_data, outputs,
          mon_log,
          hunt_projects, hunt_inventory, hunt_fail, z_pc, hunt_pos, hunt_done,
          zombies, hunt_log, z_output,
          fix_input, fix_pc, candidates, confirm_asked, install_queue, agent_calls,
          installs, fix_messages,
          w_provider, w_pc, w_call, w_attempts, w_contacts, w_cache, w_last, w_count>>

----------------------------------------------------------------------------
(* Bounds *)

MaxRegions == 1
MaxFaults == 2
FanoutRegions == 3
MaxProjects == 4
MaxConcurrency == 2
RegionalRegions == 11
MaxSeries == 2
MaxSamples == 2
PoolProjects == 2
MaxCalls == 2
MaxChanges == 1

----------------------------------------------------------------------------
(* Program constants *)

STANDARD_REGIONS == <<"us-central1", "us-west1", "us-east1", "us-east4", "us-west2", "us-west4">>

ZONE_SUFFIXES == <<"a", "b", "c", "f">>

ComputeMaxWorkers == 10

ExitSuccess == 0

ExitCancelled == 130

AllKinds == {"compute", "storage", "gke", "vertex", "sql", "iam", "run", "network"}

----------------------------------------------------------------------------
(* Helpers *)

Range(s) == {s[i] : i \in DOMAIN s}

RECURSIVE Flatten(_)
Flatten(ss) == IF ss = <<>> THEN <<>> ELSE Head(ss) \o Flatten(Tail(ss))

Count(x, s) == Cardinality({i \in DOMAIN s : s[i] = x})

RECURSIVE BoundedSubsets(_, _)
BoundedSubsets(S, k) ==
    IF k = 0 THEN {{}}
    ELSE LET T == BoundedSubsets(S, k - 1)
         IN  T \cup {t \cup {x} : t \in T, x \in S}

Prefix(s, n) == [i \in 1..n |-> s[i]]

----------------------------------------------------------------------------
(* The parts of the program a specification does not run *)

NoFailure == [label |-> "", at |-> 0]

NoArgs == [json |-> FALSE, csv |-> FALSE, html |-> FALSE, limit |-> 0, org_id |-> ""]

NoOutputs == [table |-> <<>>, json |-> <<>>, csv |-> <<>>, html |-> <<>>]

PoolIdle ==
    /\ blocked = {}
    /\ zone_queue = <<>>
    /\ zone_running = <<>>
    /\ zone_done = <<>>

MetricsIdle ==
    /\ ts_input = <<>>
    /\ ts_fail = NoFailure
    /\ m_pc = "idle"
    /\ m_label = 0
    /\ m_pos = 0
    /\ queried = <<>>
    /\ fleet_data = <<>>
    /\ m_logged = <<>>
    /\ metrics_map = <<>>

MonitorIdle ==
    /\ args = NoArgs
    /\ metrics_data = <<>>
    /\ asset_inventory = <<>>
    /\ asset_fail = <<>>
    /\ client_error = FALSE
    /\ mon_pc = "idle"
    /\ pending_scans = {}
    /\ assets = <<>>
    /\ search_calls = <<>>
    /\ enriched_data = <<>>
    /\ outputs = NoOutputs
    /\ mon_log = <<>>

NoHuntFailure == [task |-> <<>>, stage |-> "", at |-> 0]

NoReport == [kind |-> "", rows |-> <<>>, total |-> 0]

ZombiesIdle ==
    /\ hunt_projects = <<>>
    /\ hunt_inventory = <<>>
    /\ hunt_fail = NoHuntFailure
    /\ z_pc = "idle"
    /\ hunt_pos = <<>>
    /\ hunt_done = {}
    /\ zombies = <<>>
    /\ hunt_log = <<>>
    /\ z_output = NoReport

FixIdle ==
    /\ fix_input = <<>>
    /\ fix_pc = "idle"
    /\ candidates = <<>>
    /\ confirm_asked = 0
    /\ install_queue = {}
    /\ agent_calls = <<>>
    /\ installs = <<>>
    /\ fix_messages = <<>>

WalkerIdle ==
    /\ w_provider = <<>>
    /\ w_pc = "off"
    /\ w_call = <<>>
    /\ w_attempts = 0
    /\ w_contacts = 0
    /\ w_cache = <<>>
    /\ w_last = <<>>
    /\ w_count = <<>>

----------------------------------------------------------------------------
(* Zone expansion and walker calls *)

\* an expansion that runs over the suffixes in the outer loop
TargetZonesSuffixMajor(regs) ==
    Flatten([j \in DOMAIN ZONE_SUFFIXES |->
                [i \in DOMAIN regs |-> regs[i] \o "-" \o ZONE_SUFFIXES[j]]])

\* target_zones = [f"{r}-{s}" for r in regions for s in ZONE_SUFFIXES]
TargetZones(regs) ==
    Flatten([i \in DOMAIN regs |->
                [j \in DOMAIN ZONE_SUFFIXES |-> regs[i] \o "-" \o ZONE_SUFFIXES[j]]])

Call(walker, scope) == <<walker, scope>>

FanoutWalker(kind) ==
    CASE kind = "compute" -> "compute.list_instances"
      [] kind = "run"     -> "run.list_services"
      [] kind = "gke"     -> "gke.list_clusters"
      [] kind = "vertex"  -> "vertex.get_vertex_report"

FanoutScopes(kind, regs) == IF kind = "compute" THEN TargetZones(regs) ELSE regs

GlobalWalkers(kind) ==
    CASE kind = "compute" -> {"compute.list_images", "compute.list_machine_images", "compute.list_snapshots"}
      [] kind = "iam"     -> {"iam.get_iam_report"}
      [] kind = "sql"     -> {"sql.list_instances"}
      [] kind = "network" -> {"network.get_network_report"}
      [] kind = "storage" -> {"storage.list_buckets"}
      [] OTHER            -> {}

FanoutKinds == {"compute", "run", "gke", "vertex"}

\* every walker call run_audit_for_project issues for the kinds ks when none raises
KindCalls(ks, regs) ==
    UNION {{Call(w, "") : w \in GlobalWalkers(k)} : k \in ks}
    \cup UNION {{Call(FanoutWalker(k), s) : s \in Range(FanoutScopes(k, regs))} : k \in ks \cap FanoutKinds}

Raises(c) == c \in faulty

\* what the provider holds for a call: the records a successful walker returns
Inventory(c) ==
    IF c[1] = "compute.list_instances"
    THEN IF c[2] = regions[1] \o "-a" THEN <<c[2] \o "/vm-1", c[2] \o "/vm-2">>
         ELSE IF \E i \in DOMAIN regions : c[2] = regions[i] \o "-b" THEN <<c[2] \o "/vm-1">>
         ELSE <<>>
    ELSE IF c[2] = "" THEN <<c[1] \o "/item">>
    ELSE IF c[2] = regions[Len(regions)] THEN <<>>
    ELSE <<c[1] \o "/" \o c[2]>>

\* a wrapper that lets the records of a raising call through
scan_scope_keeps_records(kind, scope) == Inventory(Call(FanoutWalker(kind), scope))

\* scan_compute_zone / scan_run_region / scan_gke_location / scan_vertex_location:
\* the walker's result, or the empty list / default report when it raises
scan_scope(kind, scope) ==
    IF Raises(Call(FanoutWalker(kind), scope)) THEN <<>>
    ELSE Inventory(Call(FanoutWalker(kind), scope))

\* max_workers of the pool of a fan-out
MaxWorkers(kind) == IF kind = "compute" THEN ComputeMaxWorkers ELSE Len(regions)

\* a pool without a worker limit
NoWorkerLimit(kind) == TRUE

\* the pool starts a queued work item only on a free worker thread
WorkerFree(kind) == Cardinality(running) < MaxWorkers(kind)

EmptyComputeReport == [instances |-> <<>>, images |-> <<>>, machine_images |-> <<>>, snapshots |-> <<>>]

----------------------------------------------------------------------------
(* run_audit_for_project *)

FanPc(kind) == kind \o "_fanout"

\* the section that follows the section of a kind in run_audit_for_project
AfterKind(kind) ==
    CASE kind = "compute" -> "run"
      [] kind = "run"     -> "gke"
      [] kind = "gke"     -> "iam"
      [] kind = "iam"     -> "sql"
      [] kind = "sql"     -> "vertex"
      [] kind = "vertex"  -> "network"
      [] kind = "network" -> "storage"
      [] kind = "storage" -> "returned"

Invoke(c) == [calls EXCEPT ![c] = @ + 1]

BatchIdle ==
    /\ target_projects = <<>>
    /\ concurrency = 0
    /\ failing = {}
    /\ mpc = "idle"
    /\ submitted = 0
    /\ fut = <<>>
    /\ yielded = {}
    /\ all_reports = <<>>
    /\ errors = <<>>
    /\ progress = 0
    /\ interrupted = FALSE
    /\ exit_code = -1
    /\ emitted = <<>>

\* the state at the entry of run_audit_for_project(project_id, svcs, regs, ...)
AuditEntry(svcs, regs, flt) ==
    /\ services = svcs
    /\ regions = regs
    /\ faulty = flt
    /\ pc = "compute"
    /\ queue = <<>>
    /\ running = {}
    /\ acc = <<>>
    /\ compute_report = EmptyComputeReport
    /\ report_services = <<>>
    /\ calls = [c \in KindCalls(AllKinds, regs) |-> 0]
    /\ warnings = <<>>

ServiceChoices ==
    {{"compute"}, {"compute", "sql"}, {"run", "gke"}, {"iam", "sql"},
     {"vertex", "network", "storage"}, AllKinds}

Init ==
    /\ \E svcs \in ServiceChoices, n \in 1..MaxRegions :
         \E flt \in BoundedSubsets(KindCalls(svcs, Prefix(STANDARD_REGIONS, n)), MaxFaults) :
            AuditEntry(svcs, Prefix(STANDARD_REGIONS, n), flt)
    /\ BatchIdle /\ PoolIdle /\ MetricsIdle /\ MonitorIdle /\ ZombiesIdle /\ FixIdle /\ WalkerIdle

\* if "<kind>" in services: false, fall through to the next section
SkipKind ==
    /\ pc \in AllKinds
    /\ pc \notin services
    /\ pc' = AfterKind(pc)
    /\ UNCHANGED <<services, regions, faulty, queue, running, acc, compute_report,
                   report_services, calls, warnings>>
    /\ UNCHANGED <<batchVars, poolVars, metricVars, monitorVars, zombieVars, fixVars, walkerVars>>

\* with ThreadPoolExecutor(...) as executor: executor.submit(scan_*, ...) for
\* every zone (compute) or region (run, gke, vertex)
SubmitFanout ==
    /\ pc \in FanoutKinds
    /\ pc \in services
    /\ queue' = FanoutScopes(pc, regions)
    /\ running' = {}
    /\ acc' = <<>>
    /\ compute_report' = IF pc = "compute" THEN EmptyComputeReport ELSE compute_report
    /\ pc' = FanPc(pc)
    /\ UNCHANGED <<services, regions, faulty, report_services, calls, warnings>>
    /\ UNCHANGED <<batchVars, poolVars, metricVars, monitorVars, zombieVars, fixVars, walkerVars>>

\* a worker thread of the pool takes the oldest queued work item and calls
\* scan_*, which calls the walker
StartScope(kind) ==
    /\ pc = FanPc(kind)
    /\ queue # <<>>
    /\ WorkerFree(kind)
    /\ running' = running \cup {Head(queue)}
    /\ queue' = Tail(queue)
    /\ calls' = Invoke(Call(FanoutWalker(kind), Head(queue)))
    /\ UNCHANGED <<services, regions, faulty, pc, acc, compute_report,
                   report_services, warnings>>
    /\ UNCHANGED <<batchVars, poolVars, metricVars, monitorVars, zombieVars, fixVars, walkerVars>>

\* scan_* returns in its worker; as_completed hands the finished future to the
\* loop body of the coordinating thread, which extends the fan-out's list
CompleteScope(kind, scope) ==
    /\ pc = FanPc(kind)
    /\ scope \in running
    /\ running' = running \ {scope}
    /\ IF kind = "compute"
       THEN /\ compute_report' = [compute_report EXCEPT !.instances = @ \o scan_scope(kind, scope)]
            /\ acc' = acc
       ELSE /\ acc' = acc \o scan_scope(kind, scope)
            /\ compute_report' = compute_report
    /\ UNCHANGED <<services, regions, faulty, pc, queue, report_services, calls, warnings>>
    /\ UNCHANGED <<batchVars, poolVars, metricVars, monitorVars, zombieVars, fixVars, walkerVars>>

\* the as_completed loop is exhausted and the with block is left; the regional
\* kinds store their list in report_data["services"]
EndFanout(kind) ==
    /\ pc = FanPc(kind)
    /\ queue = <<>>
    /\ running = {}
    /\ IF kind = "compute"
       THEN /\ pc' = "images"
            /\ report_services' = report_services
       ELSE /\ pc' = AfterKind(kind)
            /\ report_services' = (kind :> acc) @@ report_services
    /\ acc' = <<>>
    /\ UNCHANGED <<services, regions, faulty, queue, running, compute_report, calls, warnings>>
    /\ UNCHANGED <<batchVars, poolVars, metricVars, monitorVars, zombieVars, fixVars, walkerVars>>

ImageWalkers == <<"compute.list_images", "compute.list_machine_images", "compute.list_snapshots">>

\* index of the first of the three image/snapshot walkers that raises, 4 when none does
FirstRaising == 
    IF \E i \in 1..3 : Raises(Call(ImageWalkers[i], ""))
    THEN CHOOSE i \in 1..3 : /\ Raises(Call(ImageWalkers[i], ""))
                             /\ \A j \in 1..(i - 1) : ~Raises(Call(ImageWalkers[j], ""))
    ELSE 4

ImageResult(i) == IF i < FirstRaising THEN Inventory(Call(ImageWalkers[i], "")) ELSE <<>>

\* try: images, machine_images, snapshots  except: warning; then
\* report_data["services"]["compute"] = compute_report
ListImagesAndSnapshots ==
    /\ pc = "images"
    /\ calls' = [c \in DOMAIN calls |->
                   IF \E i \in 1..3 : c = Call(ImageWalkers[i], "") /\ i <= FirstRaising
                   THEN calls[c] + 1 ELSE calls[c]]
    /\ compute_report' = [compute_report EXCEPT !.images = ImageResult(1),
                                                 !.machine_images = ImageResult(2),
                                                 !.snapshots = ImageResult(3)]
    /\ warnings' = IF FirstRaising <= 3 THEN Append(warnings, "images/snapshots") ELSE warnings
    /\ report_services' = ("compute" :> compute_report') @@ report_services
    /\ pc' = AfterKind("compute")
    /\ UNCHANGED <<services, regions, faulty, queue, running, acc>>
    /\ UNCHANGED <<batchVars, poolVars, metricVars, monitorVars, zombieVars, fixVars, walkerVars>>

\* iam_res = iam.get_iam_report(project_id), outside any try
IamReport ==
    /\ pc = "iam"
    /\ "iam" \in services
    /\ calls' = Invoke(Call("iam.get_iam_report", ""))
    /\ IF Raises(Call("iam.get_iam_report", ""))
       THEN /\ pc' = "raised"
            /\ report_services' = report_services
       ELSE /\ pc' = AfterKind("iam")
            /\ report_services' = ("iam" :> Inventory(Call("iam.get_iam_report", ""))) @@ report_services
    /\ UNCHANGED <<services, regions, faulty, queue, running, acc, compute_report, warnings>>
    /\ UNCHANGED <<batchVars, poolVars, metricVars, monitorVars, zombieVars, fixVars, walkerVars>>

\* try: report_data["services"][kind] = walker(project_id)
\* except Exception: console.print(warning)
GuardedScan(kind, walker) ==
    /\ pc = kind
    /\ kind \in services
    /\ calls' = Invoke(Call(walker, ""))
    /\ IF Raises(Call(walker, ""))
       THEN /\ warnings' = Append(warnings, kind)
            /\ report_services' = report_services
       ELSE /\ warnings' = warnings
            /\ report_services' = (kind :> Inventory(Call(walker, ""))) @@ report_services
    /\ pc' = AfterKind(kind)
    /\ UNCHANGED <<services, regions, faulty, queue, running, acc, compute_report>>
    /\ UNCHANGED <<batchVars, poolVars, metricVars, monitorVars, zombieVars, fixVars, walkerVars>>

ScanSql == GuardedScan("sql", "sql.list_instances")

ScanNetwork == GuardedScan("network", "network.get_network_report")

ScanStorage == GuardedScan("storage", "storage.list_buckets")

StartZoneOrRegion == \E kind \in FanoutKinds : StartScope(kind)

CompleteZoneOrRegion == \E kind \in FanoutKinds : \E scope \in running : CompleteScope(kind, scope)

FinishFanout == \E kind \in FanoutKinds : EndFanout(kind)

Next ==
    \/ SkipKind
    \/ SubmitFanout
    \/ StartZoneOrRegion
    \/ CompleteZoneOrRegion
    \/ FinishFanout
    \/ ListImagesAndSnapshots
    \/ IamReport
    \/ ScanSql
    \/ ScanNetwork
    \/ ScanStorage

Spec == Init /\ [][Next]_vars


----------------------------------------------------------------------------
(* main: the multi-project batch *)

PROJECTS == <<"proj-a", "proj-b", "proj-c", "proj-d", "proj-e">>

AuditIdle ==
    /\ services = {}
    /\ regions = <<>>
    /\ faulty = {}
    /\ pc = "idle"
    /\ queue = <<>>
    /\ running = {}
    /\ acc = <<>>
    /\ compute_report = EmptyComputeReport
    /\ report_services = <<>>
    /\ calls = <<>>
    /\ warnings = <<>>

\* the state of main when it reaches the multi-project branch
BatchEntry(projects, conc, bad) ==
    /\ target_projects = projects
    /\ concurrency = conc
    /\ failing = bad
    /\ mpc = "submit"
    /\ submitted = 0
    /\ fut = [p \in Range(projects) |-> "none"]
    /\ yielded = {}
    /\ all_reports = <<>>
    /\ errors = <<>>
    /\ progress = 0
    /\ interrupted = FALSE
    /\ exit_code = -1
    /\ emitted = <<>>

InitBatch ==
    /\ \E n \in 2..MaxProjects, conc \in 1..MaxConcurrency :
         \E bad \in SUBSET Range(Prefix(PROJECTS, n)) :
            BatchEntry(Prefix(PROJECTS, n), conc, bad)
    /\ AuditIdle /\ PoolIdle /\ MetricsIdle /\ MonitorIdle /\ ZombiesIdle /\ FixIdle /\ WalkerIdle

InState(st) == {p \in Range(target_projects) : fut[p] = st}

\* an executor without a worker limit
BatchNoWorkerLimit == TRUE

\* ThreadPoolExecutor(max_workers=args.concurrency): a queued audit starts
\* only on a free worker thread
BatchWorkerFree == Cardinality(InState("running")) < concurrency

\* futures = {executor.submit(run_audit_for_project, pid, ...): pid for pid in target_projects}
SubmitAudit ==
    /\ mpc = "submit"
    /\ submitted < Len(target_projects)
    /\ submitted' = submitted + 1
    /\ fut' = [fut EXCEPT ![target_projects[submitted + 1]] = "pending"]
    /\ mpc' = IF submitted + 1 = Len(target_projects) THEN "collect" ELSE "submit"
    /\ UNCHANGED <<target_projects, concurrency, failing, yielded, all_reports, errors,
                   progress, interrupted, exit_code, emitted>>
    /\ UNCHANGED <<auditVars, poolVars, metricVars, monitorVars, zombieVars, fixVars, walkerVars>>

\* a worker thread takes the oldest queued work item and enters run_audit_for_project
StartAudit ==
    /\ mpc # "exited"
    /\ InState("pending") # {}
    /\ BatchWorkerFree
    /\ LET i == CHOOSE i \in DOMAIN target_projects :
                   /\ fut[target_projects[i]] = "pending"
                   /\ \A j \in 1..(i - 1) : fut[target_projects[j]] # "pending"
       IN  fut' = [fut EXCEPT ![target_projects[i]] = "running"]
    /\ UNCHANGED <<target_projects, concurrency, failing, mpc, submitted, yielded,
                   all_reports, errors, progress, interrupted, exit_code, emitted>>
    /\ UNCHANGED <<auditVars, poolVars, metricVars, monitorVars, zombieVars, fixVars, walkerVars>>

\* run_audit_for_project returns or raises in its worker; the future is finished
FinishAudit(p) ==
    /\ mpc # "exited"
    /\ fut[p] = "running"
    /\ fut' = [fut EXCEPT ![p] = "finished"]
    /\ UNCHANGED <<target_projects, concurrency, failing, mpc, submitted, yielded,
                   all_reports, errors, progress, interrupted, exit_code, emitted>>
    /\ UNCHANGED <<auditVars, poolVars, metricVars, monitorVars, zombieVars, fixVars, walkerVars>>

\* a loop body that appends a report for a future whatever its outcome
CollectFutureUnchecked(p) ==
    /\ mpc = "collect"
    /\ fut[p] = "finished"
    /\ p \notin yielded
    /\ yielded' = yielded \cup {p}
    /\ all_reports' = Append(all_reports, p)
    /\ progress' = progress + 1
    /\ UNCHANGED <<target_projects, concurrency, failing, mpc, submitted, fut,
                   errors, interrupted, exit_code, emitted>>
    /\ UNCHANGED <<auditVars, poolVars, metricVars, monitorVars, zombieVars, fixVars, walkerVars>>

\* one iteration of: for future in as_completed(futures): try: result = future.result();
\* all_reports.append(result) except Exception: log; progress.update(task, advance=1)
CollectFuture(p) ==
    /\ mpc = "collect"
    /\ fut[p] = "finished"
    /\ p \notin yielded
    /\ yielded' = yielded \cup {p}
    /\ IF p \in failing
       THEN /\ errors' = Append(errors, p)
            /\ all_reports' = all_reports
       ELSE /\ all_reports' = Append(all_reports, p)
            /\ errors' = errors
    /\ progress' = progress + 1
    /\ UNCHANGED <<target_projects, concurrency, failing, mpc, submitted, fut,
                   interrupted, exit_code, emitted>>
    /\ UNCHANGED <<auditVars, poolVars, metricVars, monitorVars, zombieVars, fixVars, walkerVars>>

\* as_completed is exhausted; finally: executor.shutdown(wait=True) finds no work left
EndBatch ==
    /\ mpc = "collect"
    /\ yielded = Range(target_projects)
    /\ mpc' = "output"
    /\ UNCHANGED <<target_projects, concurrency, failing, submitted, fut, yielded,
                   all_reports, errors, progress, interrupted, exit_code, emitted>>
    /\ UNCHANGED <<auditVars, poolVars, metricVars, monitorVars, zombieVars, fixVars, walkerVars>>

\* 3. Handle Outputs (--json or --report/--html given), then main returns
HandleOutputs ==
    /\ mpc = "output"
    /\ emitted' = all_reports
    /\ mpc' = "exited"
    /\ exit_code' = ExitSuccess
    /\ UNCHANGED <<target_projects, concurrency, failing, submitted, fut, yielded,
                   all_reports, errors, progress, interrupted>>
    /\ UNCHANGED <<auditVars, poolVars, metricVars, monitorVars, zombieVars, fixVars, walkerVars>>

\* a shutdown that leaves the queued work items alone (cancel_futures=False)
CancelNothing == fut

\* executor.shutdown(wait=False, cancel_futures=True): every queued work item
\* is taken off the queue and its future cancelled
CancelQueued == [p \in DOMAIN fut |-> IF fut[p] = "pending" THEN "cancelled" ELSE fut[p]]

\* a handler without sys.exit(130): main goes on to the output section
KeyboardInterruptSwallowed ==
    /\ mpc \in {"submit", "collect"}
    /\ interrupted' = TRUE
    /\ fut' = [p \in DOMAIN fut |-> IF fut[p] = "pending" THEN "cancelled" ELSE fut[p]]
    /\ mpc' = "output"
    /\ UNCHANGED <<target_projects, concurrency, failing, submitted, yielded,
                   all_reports, errors, progress, exit_code, emitted>>
    /\ UNCHANGED <<auditVars, poolVars, metricVars, monitorVars, zombieVars, fixVars, walkerVars>>

\* except KeyboardInterrupt: print, executor.shutdown(wait=False, cancel_futures=True),
\* sys.exit(130); the finally clause then waits in executor.shutdown(wait=True)
KeyboardInterruptHandler ==
    /\ mpc \in {"submit", "collect"}
    /\ interrupted' = TRUE
    /\ fut' = CancelQueued
    /\ mpc' = "cancelling"
    /\ UNCHANGED <<target_projects, concurrency, failing, submitted, yielded,
                   all_reports, errors, progress, exit_code, emitted>>
    /\ UNCHANGED <<auditVars, poolVars, metricVars, monitorVars, zombieVars, fixVars, walkerVars>>

\* executor.shutdown(wait=True) returns once the workers are done; SystemExit(130)
\* leaves main and the process exits
ExitAfterCancel ==
    /\ mpc = "cancelling"
    /\ InState("running") = {}
    /\ InState("pending") = {}
    /\ mpc' = "exited"
    /\ exit_code' = ExitCancelled
    /\ UNCHANGED <<target_projects, concurrency, failing, submitted, fut, yielded,
                   all_reports, errors, progress, interrupted, emitted>>
    /\ UNCHANGED <<auditVars, poolVars, metricVars, monitorVars, zombieVars, fixVars, walkerVars>>

AuditFinishes == \E p \in Range(target_projects) : FinishAudit(p)

AsCompleted == \E p \in Range(target_projects) : CollectFuture(p)

NextBatch ==
    \/ SubmitAudit
    \/ StartAudit
    \/ AuditFinishes
    \/ AsCompleted
    \/ EndBatch
    \/ HandleOutputs
    \/ KeyboardInterruptHandler
    \/ ExitAfterCancel

SpecBatch == InitBatch /\ [][NextBatch]_vars

\* in-flight audits return (every walker call is bounded) and shutdown(wait=True) returns
FairSpecBatch == SpecBatch /\ WF_vars(AuditFinishes) /\ WF_vars(ExitAfterCancel)

----------------------------------------------------------------------------
(* The zonal fan-out of one audit over more zones than the pool has workers *)

InitFanout ==
    /\ \E flt \in {{}, {Call("compute.list_instances", STANDARD_REGIONS[1] \o "-a")}} :
          AuditEntry({"compute"}, Prefix(STANDARD_REGIONS, FanoutRegions), flt)
    /\ BatchIdle /\ PoolIdle /\ MetricsIdle /\ MonitorIdle /\ ZombiesIdle /\ FixIdle /\ WalkerIdle

NextFanout ==
    \/ SkipKind
    \/ SubmitFanout
    \/ StartZoneOrRegion
    \/ CompleteZoneOrRegion
    \/ FinishFanout
    \/ ListImagesAndSnapshots

SpecFanout == InitFanout /\ [][NextFanout]_vars

----------------------------------------------------------------------------
(* A regional fan-out of one audit over a --regions list longer than the   *)
(* zonal pool has workers                                                  *)

\* region names given with --regions
RegionArgs ==
    STANDARD_REGIONS \o <<"us-south1", "europe-west1", "europe-west2", "europe-west3",
                          "europe-west4", "asia-east1", "asia-east2", "asia-south1">>

RegionalKinds == {"run", "gke", "vertex"}

InitRegional ==
    /\ \E kind \in RegionalKinds :
          LET regs == Prefix(RegionArgs, RegionalRegions)
          IN  AuditEntry({kind}, regs,
                         {Call(FanoutWalker(kind), regs[i]) : i \in 3..Len(regs)})
    /\ BatchIdle /\ PoolIdle /\ MetricsIdle /\ MonitorIdle /\ ZombiesIdle /\ FixIdle /\ WalkerIdle

NextRegional ==
    \/ SkipKind
    \/ SubmitFanout
    \/ StartZoneOrRegion
    \/ CompleteZoneOrRegion
    \/ FinishFanout

SpecRegional == InitRegional /\ [][NextRegional]_vars

----------------------------------------------------------------------------
(* walkers/monitoring.py fetch_fleet_metrics and walkers/compute.py        *)
(* _fetch_performance_metrics.  A metric value v is held as the integer    *)
(* 1000 * v, so the fraction 0.3 is 300 and 30.0 percent is 30000.         *)

\* queries, in dict order
QueryLabels == <<"cpu_percent", "memory_percent", "gpu_utilization", "gpu_memory_utilization">>

\* if label in ["cpu_percent", "gpu_memory_utilization"]: val *= 100
ScaledLabels == {"cpu_percent", "gpu_memory_utilization"}

PercentScale == 100

Max(a, b) == IF a >= b THEN a ELSE b

Get(d, k, default) == IF k \in DOMAIN d THEN d[k] ELSE default

\* the time series a list_time_series call may yield: resource labels and points
SeriesChoices ==
    {[project_id |-> k[1], instance_id |-> k[2], zone |-> "us-central1-a", points |-> pts] :
        k \in {<<"proj-b", "77">>, <<"proj-c", "77">>}, pts \in {<<>>, <<300>>, <<750, 300>>}}
    \cup {[project_id |-> "", instance_id |-> "77", zone |-> "us-central1-a", points |-> <<300>>],
          [project_id |-> "proj-b", instance_id |-> "", zone |-> "us-central1-a", points |-> <<300>>]}

\* every assignment of at most k series to the four queries
RECURSIVE SeriesInputs(_)
SeriesInputs(k) ==
    IF k = 0 THEN {[l \in Range(QueryLabels) |-> <<>>]}
    ELSE LET T == SeriesInputs(k - 1)
         IN  T \cup {[f EXCEPT ![l] = Append(@, s)] :
                        f \in T, l \in Range(QueryLabels), s \in SeriesChoices}

\* no query raises, or one does after it has yielded n series
FailureChoices(inp) ==
    {NoFailure} \cup
    UNION {{[label |-> l, at |-> n] : n \in 0..Len(inp[l])} : l \in Range(QueryLabels)}

\* the state at the entry of fetch_fleet_metrics(scoping_project_id)
MetricsEntry(inp, fail) ==
    /\ ts_input = inp
    /\ ts_fail = fail
    /\ m_pc = "query"
    /\ m_label = 1
    /\ m_pos = 0
    /\ queried = <<>>
    /\ fleet_data = <<>>
    /\ m_logged = <<>>
    /\ metrics_map = <<>>

\* val = ts.points[0].value.double_value
FirstPoint(ts) == ts.points[1]

\* a fetcher that stores the provider's fraction as it is
NormalizeNothing(label, val) == val

\* Normalize to 0-100 scale
Normalize(label, val) == IF label \in ScaledLabels THEN val * PercentScale ELSE val

KeyOf(rec) == <<rec["project_id"], rec["instance_id"]>>

HasKey(data, key) == \E i \in DOMAIN data : KeyOf(data[i]) = key

IndexOf(data, key) == CHOOSE i \in DOMAIN data : KeyOf(data[i]) = key

\* fleet_data[key]["project_id"], ["instance_id"], ["zone"]
BaseInfo(ts) ==
    ("project_id" :> ts.project_id) @@ ("instance_id" :> ts.instance_id) @@ ("zone" :> ts.zone)

\* a loop that stores a series whatever its resource labels
SkipNoSeries(ts) == FALSE

\* if not project_id or not instance_id: continue
SkipSeries(ts) == ts.project_id = "" \/ ts.instance_id = ""

\* a loop body that keeps the value of the series read last
StoreSeriesLast(data, label, ts) ==
    IF SkipSeries(ts) THEN data
    ELSE LET key == <<ts.project_id, ts.instance_id>>
             d1 == IF HasKey(data, key) THEN data ELSE Append(data, BaseInfo(ts))
             i == IndexOf(d1, key)
         IN  IF ts.points = <<>> THEN d1
             ELSE [d1 EXCEPT ![i] = (label :> Normalize(label, FirstPoint(ts))) @@ d1[i]]

\* the body of "for ts in pages" for one series
StoreSeries(data, label, ts) ==
    IF SkipSeries(ts) THEN data
    ELSE LET key == <<ts.project_id, ts.instance_id>>
             d1 == IF HasKey(data, key) THEN data ELSE Append(data, BaseInfo(ts))
             i == IndexOf(d1, key)
             val == Normalize(label, FirstPoint(ts))
         IN  IF ts.points = <<>> THEN d1
             ELSE [d1 EXCEPT ![i] = IF label \in DOMAIN d1[i]
                                    THEN [d1[i] EXCEPT ![label] = Max(@, val)]
                                    ELSE (label :> val) @@ d1[i]]

CurrentLabel == QueryLabels[m_label]

FailsHere == ts_fail.label = CurrentLabel /\ ts_fail.at = m_pos

\* for label, filter_str in queries.items(): try: pages = client.list_time_series(...)
ListTimeSeries ==
    /\ m_pc = "query"
    /\ queried' = Append(queried, CurrentLabel)
    /\ m_pos' = 0
    /\ m_pc' = "pages"
    /\ UNCHANGED <<ts_input, ts_fail, m_label, fleet_data, m_logged, metrics_map>>
    /\ UNCHANGED <<auditVars, batchVars, poolVars, monitorVars, zombieVars, fixVars, walkerVars>>

\* for ts in pages: one series is read and stored
ReadSeries ==
    /\ m_pc = "pages"
    /\ m_pos < Len(ts_input[CurrentLabel])
    /\ ~FailsHere
    /\ fleet_data' = StoreSeries(fleet_data, CurrentLabel, ts_input[CurrentLabel][m_pos + 1])
    /\ m_pos' = m_pos + 1
    /\ UNCHANGED <<ts_input, ts_fail, m_pc, m_label, queried, m_logged, metrics_map>>
    /\ UNCHANGED <<auditVars, batchVars, poolVars, monitorVars, zombieVars, fixVars, walkerVars>>

\* the position after the try statement of the current label
NextQuery == IF m_label = Len(QueryLabels) THEN "returned" ELSE "query"

\* a loop without the try statement: the exception leaves fetch_fleet_metrics
QueryRaisesUnguarded ==
    /\ m_pc = "pages"
    /\ FailsHere
    /\ m_pc' = "raised"
    /\ UNCHANGED <<ts_input, ts_fail, m_label, m_pos, queried, fleet_data, m_logged, metrics_map>>
    /\ UNCHANGED <<auditVars, batchVars, poolVars, monitorVars, zombieVars, fixVars, walkerVars>>

\* list_time_series or the page iteration raises; except PermissionDenied /
\* GoogleAPICallError / Exception: logger.warning or logger.error names the label
QueryRaises ==
    /\ m_pc = "pages"
    /\ FailsHere
    /\ m_logged' = Append(m_logged, CurrentLabel)
    /\ m_label' = IF m_label = Len(QueryLabels) THEN m_label ELSE m_label + 1
    /\ m_pc' = NextQuery
    /\ UNCHANGED <<ts_input, ts_fail, m_pos, queried, fleet_data, metrics_map>>
    /\ UNCHANGED <<auditVars, batchVars, poolVars, monitorVars, zombieVars, fixVars, walkerVars>>

\* pages is exhausted; the next label, or return list(fleet_data.values())
EndPages ==
    /\ m_pc = "pages"
    /\ m_pos = Len(ts_input[CurrentLabel])
    /\ ~FailsHere
    /\ m_label' = IF m_label = Len(QueryLabels) THEN m_label ELSE m_label + 1
    /\ m_pc' = NextQuery
    /\ UNCHANGED <<ts_input, ts_fail, m_pos, queried, fleet_data, m_logged, metrics_map>>
    /\ UNCHANGED <<auditVars, batchVars, poolVars, monitorVars, zombieVars, fixVars, walkerVars>>

\* the project whose zone _fetch_performance_metrics is called for
ZoneProject == "proj-b"

\* the series a query yields before it raises
SeriesReturned(label) ==
    Prefix(ts_input[label], IF ts_fail.label = label THEN ts_fail.at
                            ELSE Len(ts_input[label]))

\* the series of the queries of _fetch_performance_metrics(project_id, zone)
ZoneSeries(label) == SelectSeq(SeriesReturned(label), LAMBDA ts : ts.project_id = ZoneProject)

ZoneField(label) ==
    CASE label = "cpu_percent"            -> "cpu"
      [] label = "memory_percent"         -> "mem"
      [] label = "gpu_utilization"        -> "gpu_util"
      [] label = "gpu_memory_utilization" -> "gpu_mem"

\* the value _fetch_performance_metrics stores for a series, cur being the
\* instance's entry so far
ZoneValue(label, cur, val) ==
    CASE label = "cpu_percent"            -> val * PercentScale
      [] label = "memory_percent"         -> val
      [] label = "gpu_utilization"        -> Max(Get(cur, "gpu_util", 0), val)
      [] label = "gpu_memory_utilization" -> Max(Get(cur, "gpu_mem", 0), val * PercentScale)

\* if instance_id and ts.points: metrics_map.setdefault(instance_id, {})[field] = ...
StoreZoneSeries(map, label, ts) ==
    IF ts.instance_id = "" \/ ts.points = <<>> THEN map
    ELSE LET cur == Get(map, ts.instance_id, <<>>)
         IN  (ts.instance_id :> ((ZoneField(label) :> ZoneValue(label, cur, FirstPoint(ts))) @@ cur)) @@ map

RECURSIVE StoreZoneQuery(_, _, _)
StoreZoneQuery(map, label, ss) ==
    IF ss = <<>> THEN map
    ELSE StoreZoneQuery(StoreZoneSeries(map, label, Head(ss)), label, Tail(ss))

RECURSIVE ZoneQueries(_, _)
ZoneQueries(map, i) ==
    IF i > Len(QueryLabels) THEN map
    ELSE ZoneQueries(StoreZoneQuery(map, QueryLabels[i], ZoneSeries(QueryLabels[i])), i + 1)

\* _fetch_performance_metrics(project_id, zone) on the same provider data: four
\* queries, each in a try whose except clause passes
FetchPerformanceMetrics ==
    /\ m_pc = "returned"
    /\ metrics_map' = ZoneQueries(<<>>, 1)
    /\ m_pc' = "zone_returned"
    /\ UNCHANGED <<ts_input, ts_fail, m_label, m_pos, queried, fleet_data, m_logged>>
    /\ UNCHANGED <<auditVars, batchVars, poolVars, monitorVars, zombieVars, fixVars, walkerVars>>

InitMetrics ==
    /\ \E inp \in SeriesInputs(MaxSeries) : \E fail \in FailureChoices(inp) : MetricsEntry(inp, fail)
    /\ AuditIdle /\ BatchIdle /\ PoolIdle /\ MonitorIdle /\ ZombiesIdle /\ FixIdle /\ WalkerIdle

NextMetrics ==
    \/ ListTimeSeries
    \/ ReadSeries
    \/ QueryRaises
    \/ EndPages
    \/ FetchPerformanceMetrics

SpecMetrics == InitMetrics /\ [][NextMetrics]_vars

----------------------------------------------------------------------------
(* walkers/asset.py search_all_instances and modes/monitor.py              *)
(* run_fleet_monitor                                                       *)

OrgScope == "organizations/org-1"

ProjectScope(pid) == "projects/" \o pid

\* the instances the Asset API may return: additionalAttributes.id,
\* displayName, additionalAttributes.machineType, location, project
AssetB77 == [id |-> "77", display_name |-> "vm-b", machine_type |-> "n1-standard-1",
             location |-> "us-central1-a", project |-> "proj-b"]

AssetB78 == [id |-> "78", display_name |-> "web-b", machine_type |-> "e2-small",
             location |-> "us-central1-a", project |-> "proj-b"]

AssetC77 == [id |-> "77", display_name |-> "vm-c", machine_type |-> "e2-medium",
             location |-> "us-west1-b", project |-> "proj-c"]

AssetNoId == [id |-> "", display_name |-> "gke-node", machine_type |-> "e2-small",
              location |-> "us-central1-a", project |-> "proj-b"]

\* what the Asset API holds for each scope the monitor searches
InventoryChoices ==
    {(ProjectScope("proj-b") :> ib) @@ (ProjectScope("proj-c") :> ic) @@ (OrgScope :> ib \o ic) :
        ib \in {<<>>, <<AssetB77>>, <<AssetB77, AssetB78>>, <<AssetNoId, AssetB78>>},
        ic \in {<<>>, <<AssetC77>>}}

NoAssetFailure == [at |-> -1, kind |-> ""]

ErrorKinds == {"PermissionDenied", "GoogleAPICallError", "Exception"}

\* no search raises, one search raises after it has yielded n resources,
\* every search is refused, or the organization search and one project search are
AssetFailureChoices(inv) ==
    {[s \in DOMAIN inv |-> NoAssetFailure]}
    \cup {[s \in DOMAIN inv |-> [at |-> 0, kind |-> "PermissionDenied"]]}
    \cup {[s \in DOMAIN inv |-> IF s \in {OrgScope, f} THEN [at |-> 0, kind |-> "PermissionDenied"]
                                 ELSE NoAssetFailure] : f \in DOMAIN inv \ {OrgScope}}
    \cup UNION {{[s \in DOMAIN inv |-> IF s = f THEN [at |-> n, kind |-> k] ELSE NoAssetFailure] :
                    n \in 0..Len(inv[f]), k \in ErrorKinds} : f \in DOMAIN inv}

\* the records fetch_fleet_metrics may return
SampleChoices ==
    {("project_id" :> k[1]) @@ ("instance_id" :> k[2]) @@ ("zone" :> "us-central1-a") @@ mt :
        k \in {<<"proj-b", "77">>, <<"proj-c", "77">>, <<"proj-b", "78">>},
        mt \in {("cpu_percent" :> 30000), ("memory_percent" :> 42500),
                ("cpu_percent" :> 90000) @@ ("memory_percent" :> 42500)}}

\* the lists of at most k records with distinct (project_id, instance_id)
RECURSIVE SampleLists(_)
SampleLists(k) ==
    IF k = 0 THEN {<<>>}
    ELSE LET T == SampleLists(k - 1)
         IN  T \cup UNION {{Append(t, s) : s \in {c \in SampleChoices : ~HasKey(t, KeyOf(c))}} :
                               t \in T}

ArgChoices ==
    {[json |-> FALSE, csv |-> FALSE, html |-> FALSE, limit |-> 20, org_id |-> ""],
     [json |-> FALSE, csv |-> TRUE,  html |-> FALSE, limit |-> 1,  org_id |-> ""],
     [json |-> TRUE,  csv |-> FALSE, html |-> FALSE, limit |-> 20, org_id |-> ""],
     [json |-> TRUE,  csv |-> TRUE,  html |-> TRUE,  limit |-> 20, org_id |-> "org-1"],
     [json |-> FALSE, csv |-> FALSE, html |-> TRUE,  limit |-> 20, org_id |-> "org-1"]}

\* results[instance_id] = {name, machine_type, zone, project}
AssetEntry(res) ==
    [name |-> res.display_name, machine_type |-> res.machine_type,
     zone |-> res.location, project |-> res.project]

\* the body of "for resource in response": if raw_id: results[str(raw_id)] = ...
RECURSIVE GatherAssets(_, _)
GatherAssets(results, rs) ==
    IF rs = <<>> THEN results
    ELSE GatherAssets(IF Head(rs).id = "" THEN results
                      ELSE (Head(rs).id :> AssetEntry(Head(rs))) @@ results,
                      Tail(rs))

\* the resources the search yields before it raises
ResourcesYielded(scope) ==
    Prefix(asset_inventory[scope],
           IF asset_fail[scope] = NoAssetFailure THEN Len(asset_inventory[scope])
           ELSE asset_fail[scope].at)

\* a search without the try statement: a provider error leaves the function
search_all_instances_unguarded(scope) ==
    [raised |-> client_error \/ asset_fail[scope] # NoAssetFailure,
     results |-> IF client_error \/ asset_fail[scope] # NoAssetFailure THEN <<>>
                 ELSE GatherAssets(<<>>, ResourcesYielded(scope)),
     logged |-> ""]

\* search_all_instances(scope): the client is built outside the try statement;
\* the search and the iteration run inside it, the except clauses only log
search_all_instances(scope) ==
    [raised |-> client_error,
     results |-> IF client_error THEN <<>> ELSE GatherAssets(<<>>, ResourcesYielded(scope)),
     logged |-> IF client_error THEN "" ELSE asset_fail[scope].kind]

\* search_calls after one more call of search_all_instances(scope) with outcome r
Recorded(scope, r) ==
    (scope :> [raised |-> r.raised, results |-> r.results, logged |-> r.logged,
               n |-> IF scope \in DOMAIN search_calls THEN search_calls[scope].n + 1 ELSE 1])
    @@ search_calls

\* projects_to_scan = {m.get("project_id") for m in metrics_data if m.get("project_id")}
ProjectsToScan == {metrics_data[i]["project_id"] : i \in DOMAIN metrics_data} \ {""}

\* the state of run_fleet_monitor after metrics_data has been fetched
MonitorEntry(a, samples, inv, fail, cerr) ==
    /\ args = a
    /\ metrics_data = samples
    /\ asset_inventory = inv
    /\ asset_fail = fail
    /\ client_error = cerr
    /\ mon_pc = "resolve"
    /\ pending_scans = {}
    /\ assets = <<>>
    /\ search_calls = <<>>
    /\ enriched_data = <<>>
    /\ outputs = NoOutputs
    /\ mon_log = <<>>

\* if args.org_id: try: assets = asset.search_all_instances(f"organizations/{args.org_id}")
\* except Exception: print fallback message; then "if not assets:" submits one
\* search per project
SearchOrganization ==
    /\ mon_pc = "resolve"
    /\ args.org_id # ""
    /\ LET r == search_all_instances(OrgScope)
       IN  /\ search_calls' = Recorded(OrgScope, r)
           /\ assets' = r.results
           /\ mon_log' = IF r.raised THEN Append(mon_log, "Org-level search failed") ELSE mon_log
           /\ pending_scans' = IF r.results = <<>> THEN ProjectsToScan ELSE {}
    /\ mon_pc' = "fanout"
    /\ UNCHANGED <<args, metrics_data, asset_inventory, asset_fail, client_error,
                   enriched_data, outputs>>
    /\ UNCHANGED <<auditVars, batchVars, poolVars, metricVars, zombieVars, fixVars, walkerVars>>

\* args.org_id is not given: assets stays {} and "if not assets:" submits one
\* search per project
SubmitProjectSearches ==
    /\ mon_pc = "resolve"
    /\ args.org_id = ""
    /\ pending_scans' = ProjectsToScan
    /\ mon_pc' = "fanout"
    /\ UNCHANGED <<args, metrics_data, asset_inventory, asset_fail, client_error,
                   assets, search_calls, enriched_data, outputs, mon_log>>
    /\ UNCHANGED <<auditVars, batchVars, poolVars, metricVars, zombieVars, fixVars, walkerVars>>

\* a loop body that keeps only the map of the future yielded last
MergeProjectAssetsReplacing(pid) ==
    /\ mon_pc = "fanout"
    /\ pid \in pending_scans
    /\ LET r == search_all_instances(ProjectScope(pid))
       IN  /\ search_calls' = Recorded(ProjectScope(pid), r)
           /\ assets' = r.results
    /\ pending_scans' = pending_scans \ {pid}
    /\ UNCHANGED <<args, metrics_data, asset_inventory, asset_fail, client_error,
                   mon_pc, enriched_data, outputs, mon_log>>
    /\ UNCHANGED <<auditVars, batchVars, poolVars, metricVars, zombieVars, fixVars, walkerVars>>

\* one iteration of "for future in as_completed(futures)": try: project_assets =
\* future.result(); assets.update(project_assets) except Exception: pass
MergeProjectAssets(pid) ==
    /\ mon_pc = "fanout"
    /\ pid \in pending_scans
    /\ LET r == search_all_instances(ProjectScope(pid))
       IN  /\ search_calls' = Recorded(ProjectScope(pid), r)
           /\ assets' = IF r.raised THEN assets ELSE r.results @@ assets
    /\ pending_scans' = pending_scans \ {pid}
    /\ UNCHANGED <<args, metrics_data, asset_inventory, asset_fail, client_error,
                   mon_pc, enriched_data, outputs, mon_log>>
    /\ UNCHANGED <<auditVars, batchVars, poolVars, metricVars, zombieVars, fixVars, walkerVars>>

\* the loop body of "for m in metrics_data"
Enrich(m) ==
    IF m["instance_id"] # "" /\ m["instance_id"] \in DOMAIN assets
    THEN ("instance_name" :> assets[m["instance_id"]].name)
         @@ ("machine_type" :> assets[m["instance_id"]].machine_type) @@ m
    ELSE ("instance_name" :> "unknown") @@ ("machine_type" :> "unknown") @@ m

\* 3. Enrich Data; df = pd.DataFrame(enriched_data); if df.empty: print, return
EnrichData ==
    /\ mon_pc = "fanout"
    /\ pending_scans = {}
    /\ enriched_data' = [i \in DOMAIN metrics_data |-> Enrich(metrics_data[i])]
    /\ IF metrics_data = <<>>
       THEN /\ mon_log' = Append(mon_log, "No metrics found in scope.")
            /\ mon_pc' = "done"
       ELSE /\ mon_log' = mon_log
            /\ mon_pc' = "output"
    /\ UNCHANGED <<args, metrics_data, asset_inventory, asset_fail, client_error,
                   pending_scans, assets, search_calls, outputs>>
    /\ UNCHANGED <<auditVars, batchVars, poolVars, metricVars, zombieVars, fixVars, walkerVars>>

\* the column cpu_percent exists in df when some record has the key
HasColumn(data, col) == \E i \in DOMAIN data : col \in DOMAIN data[i]

\* position of the row sort_values puts first: the largest cpu_percent, the
\* earliest on a tie; rows without a value come last, in their order
FirstByCpu(data) ==
    IF \E i \in DOMAIN data : "cpu_percent" \in DOMAIN data[i]
    THEN CHOOSE i \in DOMAIN data :
            /\ "cpu_percent" \in DOMAIN data[i]
            /\ \A j \in DOMAIN data : "cpu_percent" \in DOMAIN data[j] =>
                  \/ data[j]["cpu_percent"] < data[i]["cpu_percent"]
                  \/ (data[j]["cpu_percent"] = data[i]["cpu_percent"] /\ i <= j)
    ELSE 1

Remove(s, i) == [j \in 1..(Len(s) - 1) |-> IF j < i THEN s[j] ELSE s[j + 1]]

\* df.sort_values(by="cpu_percent", ascending=False, na_position="last")
RECURSIVE SortByCpu(_)
SortByCpu(data) ==
    IF data = <<>> THEN <<>>
    ELSE <<data[FirstByCpu(data)]>> \o SortByCpu(Remove(data, FirstByCpu(data)))

\* .head(n)
HeadRows(data, n) == Prefix(data, IF n < Len(data) THEN n ELSE Len(data))

\* table.add_row(project_id, instance_name, machine_type, ...)
TableRow(m) == <<m["project_id"], m["instance_name"], m["machine_type"]>>

\* Console table unless args.json, then JSON, CSV and HTML as requested; a
\* KeyError of sort_values is caught by the outer "except Exception"
EmitOutputs ==
    /\ mon_pc = "output"
    /\ IF ~args.json /\ ~HasColumn(enriched_data, "cpu_percent")
       THEN /\ mon_log' = Append(mon_log, "Fleet Audit Failed")
            /\ outputs' = outputs
            /\ mon_pc' = "failed"
       ELSE /\ outputs' =
                 [table |-> IF args.json THEN <<>>
                            ELSE LET top_cpu == HeadRows(SortByCpu(enriched_data), args.limit)
                                 IN  [i \in DOMAIN top_cpu |-> TableRow(top_cpu[i])],
                  json  |-> IF args.json THEN enriched_data ELSE <<>>,
                  csv   |-> IF args.csv THEN enriched_data ELSE <<>>,
                  html  |-> IF args.html THEN enriched_data ELSE <<>>]
            /\ mon_log' = mon_log
            /\ mon_pc' = "done"
    /\ UNCHANGED <<args, metrics_data, asset_inventory, asset_fail, client_error,
                   pending_scans, assets, search_calls, enriched_data>>
    /\ UNCHANGED <<auditVars, batchVars, poolVars, metricVars, zombieVars, fixVars, walkerVars>>

AsCompletedSearch == \E pid \in pending_scans : MergeProjectAssets(pid)

InitMonitor ==
    /\ \E a \in ArgChoices, samples \in SampleLists(MaxSamples), inv \in InventoryChoices :
          \/ \E fail \in AssetFailureChoices(inv) : MonitorEntry(a, samples, inv, fail, FALSE)
          \/ MonitorEntry(a, samples, inv, [s \in DOMAIN inv |-> NoAssetFailure], TRUE)
    /\ AuditIdle /\ BatchIdle /\ PoolIdle /\ MetricsIdle /\ ZombiesIdle /\ FixIdle /\ WalkerIdle

NextMonitor ==
    \/ SearchOrganization
    \/ SubmitProjectSearches
    \/ AsCompletedSearch
    \/ EnrichData
    \/ EmitOutputs

SpecMonitor == InitMonitor /\ [][NextMonitor]_vars

----------------------------------------------------------------------------
(* The pools of a batch: main's executor of args.concurrency workers and,  *)
(* inside each run_audit_for_project, a zone pool of its own               *)

\* the zones every audit of the batch fans out over
PoolZones == TargetZones(Prefix(STANDARD_REGIONS, 1))

PoolNone == [p \in Range(target_projects) |-> {}]

\* the zone fan-out of an audit has not submitted its work items yet
NotSubmitted(p) == zone_queue[p] = <<>> /\ zone_running[p] = {} /\ zone_done[p] = {}

\* the as_completed loop of the zone fan-out of p is exhausted
FanoutComplete(p) == zone_done[p] = Range(PoolZones)

\* zone calls that run on the workers of main's executor
ZoneWorkerShared(p) ==
    Cardinality(InState("running"))
        + Cardinality(UNION {zone_running[q] \X {q} : q \in Range(target_projects)}) < concurrency

\* with ThreadPoolExecutor(max_workers=10) as executor: the pool created by
\* this call of run_audit_for_project starts a work item on one of its own workers
ZoneWorkerFree(p) == Cardinality(zone_running[p]) < ComputeMaxWorkers

\* run_audit_for_project of p, on a worker of main's executor, creates its
\* zone pool and submits one scan_compute_zone per zone
SubmitZones(p) ==
    /\ p \in Range(target_projects)
    /\ fut[p] = "running"
    /\ NotSubmitted(p)
    /\ zone_queue' = [zone_queue EXCEPT ![p] = PoolZones]
    /\ UNCHANGED <<blocked, zone_running, zone_done>>
    /\ UNCHANGED <<auditVars, batchVars, metricVars, monitorVars, zombieVars, fixVars, walkerVars>>

\* a worker of the zone pool of p takes the oldest queued zone and calls the walker
StartZone(p) ==
    /\ p \in Range(target_projects)
    /\ fut[p] = "running"
    /\ zone_queue[p] # <<>>
    /\ ZoneWorkerFree(p)
    /\ zone_running' = [zone_running EXCEPT ![p] = @ \cup {Head(zone_queue[p])}]
    /\ zone_queue' = [zone_queue EXCEPT ![p] = Tail(@)]
    /\ UNCHANGED <<blocked, zone_done>>
    /\ UNCHANGED <<auditVars, batchVars, metricVars, monitorVars, zombieVars, fixVars, walkerVars>>

\* the walker call of a zone of p returns and as_completed yields its future
CompleteZone(p, z) ==
    /\ p \in Range(target_projects)
    /\ p \notin blocked
    /\ z \in zone_running[p]
    /\ zone_running' = [zone_running EXCEPT ![p] = @ \ {z}]
    /\ zone_done' = [zone_done EXCEPT ![p] = @ \cup {z}]
    /\ UNCHANGED <<blocked, zone_queue>>
    /\ UNCHANGED <<auditVars, batchVars, metricVars, monitorVars, zombieVars, fixVars, walkerVars>>

ZonesSubmitted == \E p \in Range(PROJECTS) : SubmitZones(p)

ZoneStarts == \E p \in Range(PROJECTS) : StartZone(p)

ZoneCompletes == \E p \in Range(PROJECTS) : \E z \in Range(PoolZones) : CompleteZone(p, z)

\* run_audit_for_project returns once its fan-out is done
AuditReturns == \E p \in Range(target_projects) : FanoutComplete(p) /\ FinishAudit(p)

InitPools ==
    /\ \E n \in 2..PoolProjects, conc \in 1..MaxConcurrency :
          /\ BatchEntry(Prefix(PROJECTS, n), conc, {})
          /\ blocked \in SUBSET Range(Prefix(PROJECTS, n))
    /\ zone_queue = [p \in Range(target_projects) |-> <<>>]
    /\ zone_running = PoolNone
    /\ zone_done = PoolNone
    /\ AuditIdle /\ MetricsIdle /\ MonitorIdle /\ ZombiesIdle /\ FixIdle /\ WalkerIdle

NextPools ==
    \/ SubmitAudit
    \/ StartAudit
    \/ ZonesSubmitted
    \/ ZoneStarts
    \/ ZoneCompletes
    \/ AuditReturns
    \/ AsCompleted
    \/ EndBatch
    \/ HandleOutputs

SpecPools == InitPools /\ [][NextPools]_vars

\* the worker threads of every pool run, and a walker call that is not blocked returns
FairSpecPools ==
    SpecPools /\ WF_vars(ZonesSubmitted) /\ WF_vars(ZoneStarts) /\ WF_vars(ZoneCompletes)

----------------------------------------------------------------------------
(* modes/zombies.py ZombieHunter and run_zombie_hunt, and                  *)
(* walkers/monitoring.py fetch_inactive_resources.  A cost c in dollars is *)
(* held as the integer part of 10000 * c, so $7.30 is 73000.               *)

\* cost = size * 0.04
StandardRate == 400

\* if "ssd" in disk_type: cost = size * 0.17
SsdRate == 1700

\* elif "balanced" in disk_type: cost = size * 0.10
BalancedRate == 1000

\* monthly_cost_est=7.30
StaticIpCost == 73000

\* cost = size_gb * 0.02
BucketRate == 200

\* 1024**3
GiB == 1073741824

\* if sent < 1_000_000
IdleSentBytes == 1000000

Detectors == <<"disks", "ips", "buckets">>

\* Python's "sub in s" on strings
Contains(s, sub) ==
    \E i \in 1..(Len(s) - Len(sub) + 1) : SubSeq(s, i, i + Len(sub) - 1) = sub

\* a time series of the egress query: the bucket_name label ("" when the
\* series carries none) and its points
Series(bucket_name, points) == [bucket_name |-> bucket_name, points |-> points]

Disk(name, size_gb, type, users) ==
    [name |-> name, size_gb |-> size_gb, type_ |-> type, users |-> users]

Address(name, status, user, address_type) ==
    [name |-> name, status |-> status, user |-> user, address_type |-> address_type,
     address |-> "203.0.113.7"]

Bucket(name, size_bytes) == [name |-> name, size_bytes |-> size_bytes]

\* what the projects of a hunt hold
HuntInventory ==
    ("proj-a" :>
        [disks |-> <<Disk("d-boot", 50, "pd-ssd", <<"vm-1">>),
                     Disk("d-old", 250, "pd-standard", <<>>)>>,
         addresses |-> <<Address("ip-free", "RESERVED", "", "EXTERNAL")>>,
         buckets |-> <<Bucket("b-cold", GiB + GiB \div 2)>>,
         activity |-> <<>>])
    @@ ("proj-b" :>
        [disks |-> <<Disk("d-scratch", 100, "pd-balanced", <<>>)>>,
         addresses |-> <<Address("ip-lb", "IN_USE", "fw-rule", "EXTERNAL"),
                         Address("ip-int", "RESERVED", "", "INTERNAL")>>,
         buckets |-> <<Bucket("b-logs", 500 * (GiB \div 1000)), Bucket("b-site", GiB + GiB \div 4)>>,
         activity |-> <<Series("b-site", <<52428800>>)>>])
    @@ ("proj-c" :>
        [disks |-> <<>>, addresses |-> <<>>, buckets |-> <<>>, activity |-> <<>>])

\* projects: [args.project_id], or org.list_all_projects() with --all-projects
HuntScopes ==
    {<<"proj-a">>, <<"proj-c">>, <<"proj-a", "proj-b">>, <<"proj-c", "proj-b">>}

\* the tasks "for pid in projects" submits
HuntTasks(projects) == {<<projects[i], Detectors[d]>> : i \in DOMAIN projects, d \in DOMAIN Detectors}

\* the items a detector task iterates over
Items(t) ==
    CASE t[2] = "disks" -> hunt_inventory[t[1]].disks
      [] t[2] = "ips" -> hunt_inventory[t[1]].addresses
      [] t[2] = "buckets" -> hunt_inventory[t[1]].buckets

\* the provider call of a task that raises: the disk listing after some disks,
\* the network report, list_buckets, the monitoring client, or the egress
\* query after some series
HuntFailureChoices(projects, inv) ==
    {NoHuntFailure}
    \cup UNION {{[task |-> <<p, "disks">>, stage |-> "aggregated_list", at |-> n] :
                    n \in 0..Len(inv[p].disks)} : p \in Range(projects)}
    \cup {[task |-> <<p, "ips">>, stage |-> "get_network_report", at |-> 0] : p \in Range(projects)}
    \cup {[task |-> <<p, "buckets">>, stage |-> st, at |-> 0] :
              p \in Range(projects), st \in {"list_buckets", "get_monitoring_client"}}
    \cup UNION {{[task |-> <<p, "buckets">>, stage |-> "list_time_series", at |-> n] :
                    n \in 0..Len(inv[p].activity)} : p \in Range(projects)}

\* run_zombie_hunt is entered
HuntEntry(projects, inv, fail) ==
    /\ hunt_projects = projects
    /\ hunt_inventory = inv
    /\ hunt_fail = fail
    /\ z_pc = "entry"
    /\ hunt_pos = <<>>
    /\ hunt_done = {}
    /\ zombies = <<>>
    /\ hunt_log = <<>>
    /\ z_output = NoReport

\* the series fetch_inactive_resources reads before list_time_series raises
SeriesScanned(pid) ==
    IF hunt_fail.task = <<pid, "buckets">> /\ hunt_fail.stage = "list_time_series"
    THEN Prefix(hunt_inventory[pid].activity, hunt_fail.at)
    ELSE hunt_inventory[pid].activity

\* key = ts.resource.labels.get(label_key) or ts.metric.labels.get(label_key) or "unknown"
SeriesKey(ts) == IF ts.bucket_name # "" THEN ts.bucket_name ELSE "unknown"

\* fetch_inactive_resources: results[key] = val of points[0] for every series
\* with points, a later series replacing an earlier one of the same key; the
\* except clause keeps what was stored before the error
fetch_inactive_resources(pid) ==
    LET read == SeriesScanned(pid)
        kept == {i \in DOMAIN read : read[i].points # <<>>}
        last(k) == CHOOSE i \in kept : SeriesKey(read[i]) = k /\
                       \A j \in kept : SeriesKey(read[j]) = k => j <= i
    IN  [k \in {SeriesKey(read[i]) : i \in kept} |-> read[last(k)].points[1]]

ZombieResource(resource_type, project_id, name, details, monthly_cost_est, reason) ==
    [resource_type |-> resource_type, project_id |-> project_id, name |-> name,
     details |-> details, monthly_cost_est |-> monthly_cost_est, reason |-> reason]

\* hunt_disks, the body of "for disk in disks.disks"
InspectDisk(pid, disk) ==
    IF disk.users = <<>>
    THEN LET cost == IF Contains(disk.type_, "ssd") THEN disk.size_gb * SsdRate
                     ELSE IF Contains(disk.type_, "balanced") THEN disk.size_gb * BalancedRate
                     ELSE disk.size_gb * StandardRate
         IN  <<ZombieResource("Disk", pid, disk.name, [size |-> disk.size_gb, text |-> disk.type_],
                              cost, "Orphaned (No VM attached)")>>
    ELSE <<>>

\* hunt_ips, the body of "for addr in report.addresses"
InspectAddress(pid, addr) ==
    IF addr.status = "RESERVED" /\ addr.user = "" /\ addr.address_type = "EXTERNAL"
    THEN <<ZombieResource("Static IP", pid, addr.name, [size |-> 0, text |-> addr.address],
                          StaticIpCost, "Reserved External IP not in use")>>
    ELSE <<>>

\* a loop body that reports every bucket of one GiB or more
InspectBucketIgnoringEgress(pid, b) ==
    IF b.size_bytes < GiB
    THEN <<>>
    ELSE <<ZombieResource("Bucket", pid, b.name, [size |-> b.size_bytes \div GiB, text |-> "Size"],
                          ((b.size_bytes \div 1048576) * BucketRate) \div 1024,
                          "Inactive (Zero egress 30d)")>>

\* hunt_buckets, the body of "for b in buckets": sent = activity.get(b.name, 0);
\* size_gb = b.size_bytes / (1024**3) is below 1 exactly when size_bytes < 1024**3
InspectBucket(pid, b) ==
    LET activity == fetch_inactive_resources(pid)
        sent == Get(activity, b.name, 0)
    IN  IF sent < IdleSentBytes
        THEN IF b.size_bytes < GiB
             THEN <<>>
             ELSE <<ZombieResource("Bucket", pid, b.name, [size |-> b.size_bytes \div GiB, text |-> "Size"],
                                   ((b.size_bytes \div 1048576) * BucketRate) \div 1024,
                                   "Inactive (Zero egress 30d)")>>
        ELSE <<>>

\* what a detector task appends for one item
Inspect(t, item) ==
    CASE t[2] = "disks" -> InspectDisk(t[1], item)
      [] t[2] = "ips" -> InspectAddress(t[1], item)
      [] t[2] = "buckets" -> InspectBucket(t[1], item)

\* the call a detector task is about to make raises into its try block;
\* list_time_series raises inside fetch_inactive_resources, which returns
RaisesNow(t) ==
    /\ hunt_fail.task = t
    /\ hunt_fail.stage # "list_time_series"
    /\ hunt_fail.at = hunt_pos[t]
    /\ hunt_fail.stage = "get_monitoring_client" => Items(t) # <<>>

\* for pid in projects: executor.submit(hunter.hunt_disks, pid); ... hunt_ips; ... hunt_buckets
SubmitHunts ==
    /\ z_pc = "entry"
    /\ hunt_pos' = [t \in HuntTasks(hunt_projects) |-> 0]
    /\ z_pc' = "hunt"
    /\ UNCHANGED <<hunt_projects, hunt_inventory, hunt_fail, hunt_done, zombies, hunt_log, z_output>>
    /\ UNCHANGED <<auditVars, batchVars, poolVars, metricVars, monitorVars, fixVars, walkerVars>>

\* a detector task looks at its next item and appends to self.zombies
HuntStep(t) ==
    /\ z_pc = "hunt"
    /\ t \in DOMAIN hunt_pos \ hunt_done
    /\ hunt_pos[t] < Len(Items(t))
    /\ ~RaisesNow(t)
    /\ zombies' = zombies \o Inspect(t, Items(t)[hunt_pos[t] + 1])
    /\ hunt_pos' = [hunt_pos EXCEPT ![t] = @ + 1]
    /\ UNCHANGED <<hunt_projects, hunt_inventory, hunt_fail, z_pc, hunt_done, hunt_log, z_output>>
    /\ UNCHANGED <<auditVars, batchVars, poolVars, metricVars, monitorVars, fixVars, walkerVars>>

\* a detector task has looked at every item and returns
HuntReturns(t) ==
    /\ z_pc = "hunt"
    /\ t \in DOMAIN hunt_pos \ hunt_done
    /\ hunt_pos[t] = Len(Items(t))
    /\ ~RaisesNow(t)
    /\ hunt_done' = hunt_done \cup {t}
    /\ UNCHANGED <<hunt_projects, hunt_inventory, hunt_fail, z_pc, hunt_pos, zombies, hunt_log, z_output>>
    /\ UNCHANGED <<auditVars, batchVars, poolVars, metricVars, monitorVars, fixVars, walkerVars>>

\* a detector whose error ends every task of the hunt
DetectorFailsAbortingHunt(t) ==
    /\ z_pc = "hunt"
    /\ t \in DOMAIN hunt_pos \ hunt_done
    /\ RaisesNow(t)
    /\ hunt_log' = Append(hunt_log, t)
    /\ hunt_done' = DOMAIN hunt_pos
    /\ UNCHANGED <<hunt_projects, hunt_inventory, hunt_fail, z_pc, hunt_pos, zombies, z_output>>
    /\ UNCHANGED <<auditVars, batchVars, poolVars, metricVars, monitorVars, fixVars, walkerVars>>

\* except Exception as e: logger.debug(f"Failed to hunt ... in {project_id}: {e}")
DetectorFails(t) ==
    /\ z_pc = "hunt"
    /\ t \in DOMAIN hunt_pos \ hunt_done
    /\ RaisesNow(t)
    /\ hunt_log' = Append(hunt_log, t)
    /\ hunt_done' = hunt_done \cup {t}
    /\ UNCHANGED <<hunt_projects, hunt_inventory, hunt_fail, z_pc, hunt_pos, zombies, z_output>>
    /\ UNCHANGED <<auditVars, batchVars, poolVars, metricVars, monitorVars, fixVars, walkerVars>>

\* "for future in as_completed(futures): future.result()" and the end of the
\* with block: every task has returned
AsCompletedHunt ==
    /\ z_pc = "hunt"
    /\ hunt_done = DOMAIN hunt_pos
    /\ z_pc' = "report"
    /\ UNCHANGED <<hunt_projects, hunt_inventory, hunt_fail, hunt_pos, hunt_done, zombies, hunt_log, z_output>>
    /\ UNCHANGED <<auditVars, batchVars, poolVars, metricVars, monitorVars, fixVars, walkerVars>>

\* position of l[i] after a descending sort that puts the later of two equal keys first
RankTiesReversed(l, i) ==
    1 + Cardinality({j \in DOMAIN l :
            \/ l[j].monthly_cost_est > l[i].monthly_cost_est
            \/ l[j].monthly_cost_est = l[i].monthly_cost_est /\ j > i})

\* position of l[i] after list.sort(key=lambda z: z.monthly_cost_est, reverse=True):
\* behind every element of a larger key and every earlier element of the same key
Rank(l, i) ==
    1 + Cardinality({j \in DOMAIN l :
            \/ l[j].monthly_cost_est > l[i].monthly_cost_est
            \/ l[j].monthly_cost_est = l[i].monthly_cost_est /\ j < i})

\* hunter.zombies.sort(key=lambda z: z.monthly_cost_est, reverse=True)
SortByCost(l) == [k \in DOMAIN l |-> l[CHOOSE i \in DOMAIN l : Rank(l, i) = k]]

RECURSIVE Sum(_)
Sum(l) == IF l = <<>> THEN 0 ELSE Head(l).monthly_cost_est + Sum(Tail(l))

\* the report section: "if not hunter.zombies: ... return", else sort, total
\* and the table, JSON, CSV and HTML written from the sorted list
ReportZombies ==
    /\ z_pc = "report"
    /\ IF zombies = <<>>
       THEN /\ z_output' = [kind |-> "clean", rows |-> <<>>, total |-> 0]
            /\ UNCHANGED zombies
       ELSE /\ zombies' = SortByCost(zombies)
            /\ z_output' = [kind |-> "report", rows |-> SortByCost(zombies), total |-> Sum(zombies)]
    /\ z_pc' = "done"
    /\ UNCHANGED <<hunt_projects, hunt_inventory, hunt_fail, hunt_pos, hunt_done, hunt_log>>
    /\ UNCHANGED <<auditVars, batchVars, poolVars, metricVars, monitorVars, fixVars, walkerVars>>

HuntSteps == \E t \in DOMAIN hunt_pos : HuntStep(t)

HuntTaskReturns == \E t \in DOMAIN hunt_pos : HuntReturns(t)

HuntTaskFails == \E t \in DOMAIN hunt_pos : DetectorFails(t)

InitZombies ==
    /\ \E projects \in HuntScopes :
          \E fail \in HuntFailureChoices(projects, HuntInventory) :
              HuntEntry(projects, HuntInventory, fail)
    /\ AuditIdle /\ BatchIdle /\ PoolIdle /\ MetricsIdle /\ MonitorIdle /\ FixIdle /\ WalkerIdle

NextZombies ==
    \/ SubmitHunts
    \/ HuntSteps
    \/ HuntTaskReturns
    \/ HuntTaskFails
    \/ AsCompletedHunt
    \/ ReportZombies

SpecZombies == InitZombies /\ [][NextZombies]_vars

----------------------------------------------------------------------------
(* ZombieHunter.hunt_buckets called for one project, over buckets around   *)
(* the size threshold and egress series around the activity threshold      *)

\* bucket lists storage.list_buckets may return
BucketLists ==
    LET sizes == {GiB - 1, GiB, 2000000000}
    IN  {<<>>} \cup {<<Bucket("b1", x)>> : x \in sizes}
        \cup {<<Bucket("b1", x), Bucket("b2", y)>> : x \in sizes, y \in sizes}

\* the series the egress query may yield
EgressSeries ==
    {Series(n, pts) : n \in {"b1", "b2", ""}, pts \in {<<>>, <<0>>, <<999999>>, <<1000000>>}}

RECURSIVE EgressLists(_)
EgressLists(k) ==
    IF k = 0 THEN {<<>>}
    ELSE LET T == EgressLists(k - 1)
         IN  T \cup {Append(t, ts) : t \in T, ts \in EgressSeries}

\* hunter.hunt_buckets(project_id) on a new ZombieHunter
InitBuckets ==
    /\ \E bl \in BucketLists, sl \in EgressLists(MaxSeries) :
          LET inv == "proj-a" :> [disks |-> <<>>, addresses |-> <<>>, buckets |-> bl, activity |-> sl]
          IN  /\ hunt_projects = <<"proj-a">>
              /\ hunt_inventory = inv
              /\ hunt_fail \in {f \in HuntFailureChoices(<<"proj-a">>, inv) :
                                   f = NoHuntFailure \/ f.task[2] = "buckets"}
    /\ z_pc = "hunt"
    /\ hunt_pos = <<"proj-a", "buckets">> :> 0
    /\ hunt_done = {}
    /\ zombies = <<>>
    /\ hunt_log = <<>>
    /\ z_output = NoReport
    /\ AuditIdle /\ BatchIdle /\ PoolIdle /\ MetricsIdle /\ MonitorIdle /\ FixIdle /\ WalkerIdle

NextBuckets ==
    \/ HuntSteps
    \/ HuntTaskReturns
    \/ HuntTaskFails

SpecBuckets == InitBuckets /\ [][NextBuckets]_vars

----------------------------------------------------------------------------
(* modes/fix.py _install_agent and _fix_ops_agent.  A percentage is held   *)
(* in thousandths, as fetch_fleet_metrics values are: 0.1 percent is 100.  *)

\* Python's s.startswith(prefix)
StartsWith(str, prefix) ==
    Len(str) >= Len(prefix) /\ SubSeq(str, 1, Len(prefix)) = prefix

\* "not instance.get(k)": the key is missing, or None, or the empty string
Falsy(instance, k) == k \notin DOMAIN instance \/ instance[k] = ""

\* str(instance.get(k)) inside an f-string
Text(instance, k) == IF k \in DOMAIN instance THEN instance[k] ELSE "None"

\* subprocess.run results: return code 0, another return code, or an exception
SshOutcomes == {"ok", "failed", "raises"}

\* an installer without the GKE guard
install_agent_on_any_node(instance, ssh) ==
    IF \/ Falsy(instance, "instance_name") \/ Falsy(instance, "zone")
       \/ Falsy(instance, "project_id") \/ instance["instance_name"] = "unknown"
    THEN [launched |-> FALSE,
          message |-> "[yellow]Skipping " \o Text(instance, "instance_name") \o ": Missing details[/yellow]"]
    ELSE [launched |-> TRUE,
          message |-> CASE ssh = "ok" -> "[green]SUCCESS: " \o instance["instance_name"] \o "[/green]"
                        [] ssh = "failed" -> "[red]FAILED: " \o instance["instance_name"] \o " - Unknown error[/red]"
                        [] ssh = "raises" -> "[red]ERROR: " \o instance["instance_name"] \o " - e[/red]"]

\* _install_agent(instance): whether subprocess.run is called, and the string returned
install_agent(instance, ssh) ==
    IF \/ Falsy(instance, "instance_name") \/ Falsy(instance, "zone")
       \/ Falsy(instance, "project_id") \/ instance["instance_name"] = "unknown"
    THEN [launched |-> FALSE,
          message |-> "[yellow]Skipping " \o Text(instance, "instance_name") \o ": Missing details[/yellow]"]
    ELSE IF StartsWith(instance["instance_name"], "gke-")
    THEN [launched |-> FALSE,
          message |-> "[yellow]Skipping " \o instance["instance_name"] \o ": GKE Node (COS not supported)[/yellow]"]
    ELSE [launched |-> TRUE,
          message |-> CASE ssh = "ok" -> "[green]SUCCESS: " \o instance["instance_name"] \o "[/green]"
                        [] ssh = "failed" -> "[red]FAILED: " \o instance["instance_name"] \o " - Unknown error[/red]"
                        [] ssh = "raises" -> "[red]ERROR: " \o instance["instance_name"] \o " - e[/red]"]

\* ssh_cmd: name, --zone zone, --project project
SshCommand(instance) == <<instance["instance_name"], instance["zone"], instance["project_id"]>>

\* the instance dicts _install_agent may be called with
InstanceChoices ==
    LET field(k, vals) == {<<>>} \cup {k :> v : v \in vals}
    IN  {n @@ z @@ q :
            n \in field("instance_name", {"", "unknown", "gke-node-pool-1", "gke-", "gk", "my-gke-1", "vm-1"}),
            z \in field("zone", {"", "us-central1-a"}),
            q \in field("project_id", {"", "proj-1"})}

NoFixInput == [monitor |-> TRUE, metrics_raises |-> FALSE, metrics |-> <<>>, assets |-> <<>>,
               answer |-> FALSE, ssh |-> "ok"]

\* _install_agent(instance) is called on its own
InitInstall ==
    /\ \E instance \in InstanceChoices, ssh \in SshOutcomes :
          /\ fix_input = [NoFixInput EXCEPT !.ssh = ssh]
          /\ candidates = <<instance>>
    /\ fix_pc = "call"
    /\ confirm_asked = 0
    /\ install_queue = {}
    /\ agent_calls = <<>>
    /\ installs = <<>>
    /\ fix_messages = <<>>
    /\ AuditIdle /\ BatchIdle /\ PoolIdle /\ MetricsIdle /\ MonitorIdle /\ ZombiesIdle /\ WalkerIdle

\* one call of _install_agent with candidates[i]
RunAgent(i) ==
    LET r == install_agent(candidates[i], fix_input.ssh)
    IN  /\ agent_calls' = Append(agent_calls, i)
        /\ installs' = IF r.launched
                       THEN Append(installs, [candidate |-> i, cmd |-> SshCommand(candidates[i])])
                       ELSE installs
        /\ fix_messages' = Append(fix_messages, r.message)

CallInstallAgent ==
    /\ fix_pc = "call"
    /\ RunAgent(1)
    /\ fix_pc' = "returned"
    /\ UNCHANGED <<fix_input, candidates, confirm_asked, install_queue>>
    /\ UNCHANGED <<auditVars, batchVars, poolVars, metricVars, monitorVars, zombieVars, walkerVars>>

NextInstall == CallInstallAgent

SpecInstall == InitInstall /\ [][NextInstall]_vars

\* a sample of fetch_fleet_metrics
FleetSample(project_id, instance_id, zone, values) ==
    ("project_id" :> project_id) @@ ("instance_id" :> instance_id) @@ ("zone" :> zone) @@ values

\* samples around the candidate rule: busy without memory data, with memory
\* data, at the CPU threshold, a GKE node, an unresolved id, without a zone
\* label, without CPU data
FleetSamples ==
    <<FleetSample("proj-b", "77", "us-central1-a", "cpu_percent" :> 50000),
      FleetSample("proj-b", "78", "us-central1-a", ("cpu_percent" :> 50000) @@ ("memory_percent" :> 40000)),
      FleetSample("proj-b", "79", "us-central1-a", "cpu_percent" :> 100),
      FleetSample("proj-c", "80", "us-central1-b", "cpu_percent" :> 50000),
      FleetSample("proj-c", "81", "us-central1-b", "cpu_percent" :> 50000),
      FleetSample("proj-c", "82", "", "cpu_percent" :> 101),
      FleetSample("proj-c", "83", "us-central1-b", <<>>)>>

\* the identity map the per-project searches of lines 88-96 leave in assets
ResolvedAssets ==
    ("77" :> [name |-> "vm-b", machine_type |-> "e2-medium"])
    @@ ("78" :> [name |-> "vm-agent", machine_type |-> "e2-medium"])
    @@ ("79" :> [name |-> "vm-idle", machine_type |-> "e2-small"])
    @@ ("80" :> [name |-> "gke-pool-1-abcd", machine_type |-> "e2-standard-4"])
    @@ ("82" :> [name |-> "vm-c", machine_type |-> "n1-standard-1"])
    @@ ("83" :> [name |-> "vm-quiet", machine_type |-> "n1-standard-1"])

\* the samples of FleetSamples picked by a set of positions, in order
RECURSIVE Pick(_, _)
Pick(samples, keep) ==
    IF samples = <<>> THEN <<>>
    ELSE (IF Len(samples) \in keep THEN Pick(Prefix(samples, Len(samples) - 1), keep) \o <<samples[Len(samples)]>>
          ELSE Pick(Prefix(samples, Len(samples) - 1), keep))

FixInputs ==
    {[monitor |-> mon, metrics_raises |-> mr, metrics |-> Pick(FleetSamples, keep), assets |-> a,
      answer |-> ans, ssh |-> ssh] :
        mon \in BOOLEAN, mr \in BOOLEAN, keep \in SUBSET DOMAIN FleetSamples,
        a \in {ResolvedAssets, <<>>}, ans \in BOOLEAN, ssh \in {"ok", "failed"}}

\* _fix_ops_agent is entered
InitFix ==
    /\ fix_input \in {x \in FixInputs : x.metrics_raises => (x.metrics = <<>> /\ x.assets = <<>>)}
    /\ fix_pc = "entry"
    /\ candidates = <<>>
    /\ confirm_asked = 0
    /\ install_queue = {}
    /\ agent_calls = <<>>
    /\ installs = <<>>
    /\ fix_messages = <<>>
    /\ AuditIdle /\ BatchIdle /\ PoolIdle /\ MetricsIdle /\ MonitorIdle /\ ZombiesIdle /\ WalkerIdle

\* if not args.monitor: console.print(...); return
RequireMonitor ==
    /\ fix_pc = "entry"
    /\ IF fix_input.monitor
       THEN fix_pc' = "discover" /\ UNCHANGED fix_messages
       ELSE /\ fix_pc' = "done"
            /\ fix_messages' = Append(fix_messages, "[red]Error: --fix ops-agent currently requires --monitor[/red]")
    /\ UNCHANGED <<fix_input, candidates, confirm_asked, install_queue, agent_calls, installs>>
    /\ UNCHANGED <<auditVars, batchVars, poolVars, metricVars, monitorVars, zombieVars, walkerVars>>

\* m["instance_name"] = assets[iid]["name"]; m["machine_type"] = ...; else "unknown"
Resolve(m, identities) ==
    IF m["instance_id"] \in DOMAIN identities
    THEN ("instance_name" :> identities[m["instance_id"]].name)
         @@ ("machine_type" :> identities[m["instance_id"]].machine_type) @@ m
    ELSE ("instance_name" :> "unknown") @@ m

\* cpu > 0.1 and mem is None and name != "unknown" and not name.startswith("gke-")
IsCandidate(m) ==
    /\ Get(m, "cpu_percent", 0) > 100
    /\ "memory_percent" \notin DOMAIN m
    /\ m["instance_name"] # "unknown"
    /\ ~StartsWith(m["instance_name"], "gke-")

\* the loop "for m in metrics" of lines 99-119
FilterCandidates(metrics, identities) ==
    SelectSeq([i \in DOMAIN metrics |-> Resolve(metrics[i], identities)], IsCandidate)

\* lines 65-142: fetch the metrics, resolve the names, filter, show the table
FindCandidates ==
    /\ fix_pc = "discover"
    /\ IF fix_input.metrics_raises
       THEN /\ fix_pc' = "done"
            /\ fix_messages' = Append(fix_messages, "[red]Failed to fetch metrics: e[/red]")
            /\ UNCHANGED candidates
       ELSE LET found == FilterCandidates(fix_input.metrics, fix_input.assets)
            IN  /\ candidates' = found
                /\ IF found = <<>>
                   THEN /\ fix_pc' = "done"
                        /\ fix_messages' = Append(fix_messages,
                              "[green]No candidates found! All eligible VMs have Ops Agent.[/green]")
                   ELSE /\ fix_pc' = "confirm"
                        /\ UNCHANGED fix_messages
    /\ UNCHANGED <<fix_input, confirm_asked, install_queue, agent_calls, installs>>
    /\ UNCHANGED <<auditVars, batchVars, poolVars, metricVars, monitorVars, zombieVars, walkerVars>>

\* a prompt whose answer is not looked at
AskConfirmIgnoringAnswer ==
    /\ fix_pc = "confirm"
    /\ confirm_asked' = confirm_asked + 1
    /\ fix_pc' = "launch"
    /\ UNCHANGED fix_messages
    /\ UNCHANGED <<fix_input, candidates, install_queue, agent_calls, installs>>
    /\ UNCHANGED <<auditVars, batchVars, poolVars, metricVars, monitorVars, zombieVars, walkerVars>>

\* if not Confirm.ask(...): console.print("[yellow]Aborted.[/yellow]"); return
AskConfirm ==
    /\ fix_pc = "confirm"
    /\ confirm_asked' = confirm_asked + 1
    /\ IF fix_input.answer
       THEN fix_pc' = "launch" /\ UNCHANGED fix_messages
       ELSE fix_pc' = "done" /\ fix_messages' = Append(fix_messages, "[yellow]Aborted.[/yellow]")
    /\ UNCHANGED <<fix_input, candidates, install_queue, agent_calls, installs>>
    /\ UNCHANGED <<auditVars, batchVars, poolVars, metricVars, monitorVars, zombieVars, walkerVars>>

\* install_futures = [executor.submit(_install_agent, c) for c in candidates]
SubmitInstalls ==
    /\ fix_pc = "launch"
    /\ install_queue' = DOMAIN candidates
    /\ fix_pc' = "installing"
    /\ UNCHANGED <<fix_input, candidates, confirm_asked, agent_calls, installs, fix_messages>>
    /\ UNCHANGED <<auditVars, batchVars, poolVars, metricVars, monitorVars, zombieVars, walkerVars>>

\* a pool thread runs _install_agent(c); as_completed prints what it returned
RunInstall ==
    /\ fix_pc = "installing"
    /\ \E i \in install_queue :
          /\ RunAgent(i)
          /\ install_queue' = install_queue \ {i}
    /\ UNCHANGED <<fix_input, fix_pc, candidates, confirm_asked>>
    /\ UNCHANGED <<auditVars, batchVars, poolVars, metricVars, monitorVars, zombieVars, walkerVars>>

\* every future has been yielded: the with block ends and _fix_ops_agent returns
EndInstalls ==
    /\ fix_pc = "installing"
    /\ install_queue = {}
    /\ fix_pc' = "done"
    /\ UNCHANGED <<fix_input, candidates, confirm_asked, install_queue, agent_calls, installs, fix_messages>>
    /\ UNCHANGED <<auditVars, batchVars, poolVars, metricVars, monitorVars, zombieVars, walkerVars>>

NextFix ==
    \/ RequireMonitor
    \/ FindCandidates
    \/ AskConfirm
    \/ SubmitInstalls
    \/ RunInstall
    \/ EndInstalls

SpecFix == InitFix /\ [][NextFix]_vars

----------------------------------------------------------------------------
(* core.py memory and RETRY_CONFIG around a walker: the @memory.cache      *)
(* wrapper over the @retry wrapper over the function body, and the call    *)
(* site                                                                    *)

\* "stop": stop_after_attempt(3)
StopAfterAttempt == 3

Walkers ==
    {"asset.search_all_instances", "compute.list_instances", "gke.list_clusters", "sql.list_instances"}

\* the walkers decorated with @memory.cache
Cached == {"asset.search_all_instances", "compute.list_instances"}

\* the walkers whose provider request sits in a try block of their own
CatchesProviderErrors == {"asset.search_all_instances", "gke.list_clusters", "sql.list_instances"}

WalkerScopes == {"projects/proj-b", "projects/proj-c"}

\* what an attempt meets: the resources each scope holds, and whether the client
\* constructor or the provider request raises
ProviderStates ==
    {[resources |-> res, fault |-> f] :
        res \in [WalkerScopes -> {<<>>, <<"vm-1">>}], f \in {"none", "client", "provider"}}

NoCall == [scope |-> "", faults |-> <<>>]

InitWalker ==
    /\ w_provider \in ProviderStates
    /\ \E w \in Walkers : w_call = [walker |-> w] @@ NoCall
    /\ w_pc = "idle"
    /\ w_attempts = 0
    /\ w_contacts = 0
    /\ w_cache = <<>>
    /\ w_last = <<>>
    /\ w_count = [calls |-> 0, changes |-> 0]
    /\ AuditIdle /\ BatchIdle /\ PoolIdle /\ MetricsIdle /\ MonitorIdle /\ ZombiesIdle /\ FixIdle

\* what the call site holds when the call has ended; scan_compute_zone and its
\* like return [] when the call raised
AtCallSite(scope, raised, result, hit) ==
    [scope |-> scope, raised |-> raised, result |-> IF raised THEN <<>> ELSE result,
     attempts |-> IF hit THEN 0 ELSE w_attempts + 1,
     contacts |-> IF hit THEN 0 ELSE w_contacts + (IF w_provider.fault = "client" THEN 0 ELSE 1),
     faults |-> IF hit THEN <<>> ELSE Append(w_call.faults, w_provider.fault)]

\* a wrapper that never looks into the store
CallWalkerUncached(scope) ==
    /\ w_pc = "idle"
    /\ w_count.calls < MaxCalls
    /\ w_count' = [w_count EXCEPT !.calls = @ + 1]
    /\ w_pc' = "attempt"
    /\ w_call' = [w_call EXCEPT !.scope = scope, !.faults = <<>>]
    /\ w_attempts' = 0
    /\ w_contacts' = 0
    /\ UNCHANGED <<w_last, w_provider, w_cache>>
    /\ UNCHANGED <<auditVars, batchVars, poolVars, metricVars, monitorVars, zombieVars, fixVars>>

\* the walker is called: memory.cache returns the stored value of these
\* arguments when there is one, and enters the retry wrapper otherwise
CallWalker(scope) ==
    /\ w_pc = "idle"
    /\ w_count.calls < MaxCalls
    /\ w_count' = [w_count EXCEPT !.calls = @ + 1]
    /\ IF w_call.walker \in Cached /\ scope \in DOMAIN w_cache
       THEN /\ w_last' = AtCallSite(scope, FALSE, w_cache[scope], TRUE)
            /\ UNCHANGED <<w_pc, w_call, w_attempts, w_contacts>>
       ELSE /\ w_pc' = "attempt"
            /\ w_call' = [w_call EXCEPT !.scope = scope, !.faults = <<>>]
            /\ w_attempts' = 0
            /\ w_contacts' = 0
            /\ UNCHANGED w_last
    /\ UNCHANGED <<w_provider, w_cache>>
    /\ UNCHANGED <<auditVars, batchVars, poolVars, metricVars, monitorVars, zombieVars, fixVars>>

\* the function body raises: the client constructor did, or the provider
\* request did and the body has no try block around it
BodyRaises ==
    \/ w_provider.fault = "client"
    \/ w_provider.fault = "provider" /\ w_call.walker \notin CatchesProviderErrors

\* what the function body returns: the resources of the scope, or what it had
\* gathered when its except clause caught the provider error
BodyResult ==
    IF w_provider.fault = "provider" THEN <<>> ELSE w_provider.resources[w_call.scope]

\* a wrapper that gives up one attempt later
ExhaustedLate(n) == n >= StopAfterAttempt + 1

\* stop_after_attempt(3): the attempt that just failed was the last one
Exhausted(n) == n >= StopAfterAttempt

\* one attempt of the retry wrapper
Attempt ==
    /\ w_pc = "attempt"
    /\ IF ~BodyRaises
       THEN /\ w_last' = AtCallSite(w_call.scope, FALSE, BodyResult, FALSE)
            /\ w_cache' = IF w_call.walker \in Cached
                          THEN (w_call.scope :> BodyResult) @@ w_cache
                          ELSE w_cache
            /\ w_pc' = "idle"
            /\ w_call' = [w_call EXCEPT !.scope = "", !.faults = <<>>]
            /\ w_attempts' = 0
            /\ w_contacts' = 0
       ELSE IF Exhausted(w_attempts + 1)
       THEN /\ w_last' = AtCallSite(w_call.scope, TRUE, <<>>, FALSE)
            /\ w_pc' = "idle"
            /\ w_call' = [w_call EXCEPT !.scope = "", !.faults = <<>>]
            /\ w_attempts' = 0
            /\ w_contacts' = 0
            /\ UNCHANGED w_cache
       ELSE /\ w_attempts' = w_attempts + 1
            /\ w_contacts' = w_contacts + (IF w_provider.fault = "client" THEN 0 ELSE 1)
            /\ w_call' = [w_call EXCEPT !.faults = Append(@, w_provider.fault)]
            /\ UNCHANGED <<w_pc, w_last, w_cache>>
    /\ UNCHANGED <<w_provider, w_count>>
    /\ UNCHANGED <<auditVars, batchVars, poolVars, metricVars, monitorVars, zombieVars, fixVars>>

\* if args.no_cache: memory.clear(warn=False)
ClearCache ==
    /\ w_pc = "idle"
    /\ w_cache # <<>>
    /\ w_cache' = <<>>
    /\ UNCHANGED <<w_provider, w_pc, w_call, w_attempts, w_contacts, w_last, w_count>>
    /\ UNCHANGED <<auditVars, batchVars, poolVars, metricVars, monitorVars, zombieVars, fixVars>>

\* the fleet or the provider's condition changes between two requests
ProviderChanges ==
    /\ w_count.changes < MaxChanges
    /\ w_count' = [w_count EXCEPT !.changes = @ + 1]
    /\ w_provider' \in ProviderStates \ {w_provider}
    /\ UNCHANGED <<w_pc, w_call, w_attempts, w_contacts, w_cache, w_last>>
    /\ UNCHANGED <<auditVars, batchVars, poolVars, metricVars, monitorVars, zombieVars, fixVars>>

WalkerCalled == \E scope \in WalkerScopes : CallWalker(scope)

NextWalker ==
    \/ WalkerCalled
    \/ Attempt
    \/ ClearCache
    \/ ProviderChanges

SpecWalker == InitWalker /\ [][NextWalker]_vars

----------------------------------------------------------------------------
(* Properties *)

ZoneCall(z) == Call("compute.list_instances", z)

Zones == Range(TargetZones(regions))

\* C1: once the compute report is in the project report, its instance list
\* holds every instance of every zone whose walker call did not raise exactly
\* once, and no instance of a zone whose call raised, whatever the completion
\* order of the zone calls.
C1_FailingZonesContributeNothing ==
    "compute" \in DOMAIN report_services =>
        LET inst == report_services["compute"].instances
        IN  /\ \A z \in Zones : \A x \in Range(Inventory(ZoneCall(z))) :
                  Count(x, inst) = IF Raises(ZoneCall(z)) THEN 0 ELSE 1
            /\ \A i \in DOMAIN inst : \E z \in Zones : inst[i] \in Range(Inventory(ZoneCall(z)))

C1_Witness ==
    /\ pc = "returned"
    /\ "compute" \in DOMAIN report_services
    /\ \E z \in Zones : Raises(ZoneCall(z)) /\ Inventory(ZoneCall(z)) # <<>>
    /\ \E z \in Zones : ~Raises(ZoneCall(z)) /\ Inventory(ZoneCall(z)) # <<>>
    /\ report_services["compute"].instances # <<>>

RaisingScopes(kind) ==
    {s \in Range(FanoutScopes(kind, regions)) : Raises(Call(FanoutWalker(kind), s))}

\* C2: when exactly one zone or region call of a fan-out raises, the audit
\* has logged exactly one warning that names the failing scope.
C2_OneWarningForTheFailingScope ==
    pc = "returned" =>
        \A kind \in services \cap FanoutKinds :
            Cardinality(RaisingScopes(kind)) = 1 =>
                \A s \in RaisingScopes(kind) : Count(s, warnings) = 1

\* C3: a raising walker call of a requested kind never propagates out of
\* run_audit_for_project and never prevents a later walker call of the
\* requested kinds from being issued.
C3_FailureNeverStopsLaterCalls ==
    /\ pc # "raised"
    /\ pc = "returned" => \A c \in KindCalls(services, regions) : calls[c] >= 1

\* C4: when run_audit_for_project returns, the keys of the services map are
\* exactly the requested kinds.
C4_ReportHasEveryRequestedKind ==
    pc = "returned" => DOMAIN report_services = services

Projects == Range(target_projects)

\* C5: every future handed out by as_completed is accounted for exactly once,
\* as a report if its audit returned and as a logged error if it raised; when
\* the batch has run to its end that covers every project.
C5_BatchIsolatesFailingProjects ==
    /\ \A p \in Projects :
          /\ Count(p, all_reports) = IF p \in yielded /\ p \notin failing THEN 1 ELSE 0
          /\ Count(p, errors) = IF p \in yielded /\ p \in failing THEN 1 ELSE 0
    /\ (mpc = "output" \/ (mpc = "exited" /\ ~interrupted)) =>
          /\ yielded = Projects
          /\ progress = Len(target_projects)

C5_Witness ==
    /\ mpc = "exited"
    /\ ~interrupted
    /\ failing # {}
    /\ failing # Projects
    /\ Len(all_reports) + Len(errors) = Len(target_projects)

\* C6: from the handling of the interrupt on, no future is still queued and
\* no audit that was not already running starts.
C6_InterruptCancelsQueued ==
    [][interrupted' =>
          \A p \in Projects :
              /\ fut'[p] # "pending"
              /\ fut'[p] = "running" => fut[p] = "running"]_vars

C6_Witness ==
    /\ mpc = "exited"
    /\ interrupted
    /\ InState("cancelled") # {}
    /\ InState("finished") # {}

\* C7: an interrupted run never has exit status 0 and eventually exits with 130.
C7_InterruptExits130 ==
    /\ [](interrupted => exit_code # ExitSuccess)
    /\ (interrupted ~> (mpc = "exited" /\ exit_code = ExitCancelled))

C7_Witness ==
    /\ mpc = "exited"
    /\ interrupted
    /\ exit_code = ExitCancelled
    /\ all_reports # <<>>
    /\ InState("finished") \ yielded # {}

\* C8: after an interrupt the output of the run contains the report of every
\* project that had completed.
C8_PartialOutputEmitted ==
    (mpc = "exited" /\ interrupted) =>
        \A i \in DOMAIN all_reports : all_reports[i] \in Range(emitted)

\* C9: at most args.concurrency audits are in flight.
C9_BatchConcurrencyBound == Cardinality(InState("running")) <= concurrency

C9_Witness ==
    /\ Cardinality(InState("running")) = concurrency
    /\ InState("pending") # {}

\* C10: the zonal fan-out calls the walker once per expanded zone, never twice,
\* and never has more than 10 zone calls in flight.
C10_ZoneFanoutBound ==
    /\ pc = FanPc("compute") => Cardinality(running) <= ComputeMaxWorkers
    /\ \A z \in Zones : calls[ZoneCall(z)] <= 1
    /\ pc \notin {"compute", FanPc("compute")} => \A z \in Zones : calls[ZoneCall(z)] = 1

C10_Witness ==
    /\ pc = FanPc("compute")
    /\ Cardinality(running) = ComputeMaxWorkers
    /\ queue # <<>>

\* C11: a regional fan-out (run, gke, vertex) calls its walker once per region
\* and never has more calls in flight than the zonal fan-out's ceiling of 10,
\* however many regions are passed.
C11_RegionalFanoutBound ==
    /\ \A kind \in RegionalKinds : pc = FanPc(kind) => Cardinality(running) <= ComputeMaxWorkers
    /\ \A c \in DOMAIN calls : calls[c] <= 1

\* C13: the compute instances of the report are in the order of the scope keys
\* (the expanded zone list), whatever the order in which the zone calls completed.
C13_InstanceOrderIsCanonical ==
    "compute" \in DOMAIN report_services =>
        report_services["compute"].instances =
            Flatten([i \in DOMAIN TargetZones(regions) |->
                        scan_scope("compute", TargetZones(regions)[i])])

LabelIndex(l) == CHOOSE i \in DOMAIN QueryLabels : QueryLabels[i] = l

\* the series of a label that fetch_fleet_metrics has read so far
SeriesRead(l) ==
    IF m_pc \in {"returned", "zone_returned"} \/ LabelIndex(l) < m_label THEN SeriesReturned(l)
    ELSE IF LabelIndex(l) = m_label /\ m_pc = "pages" THEN Prefix(ts_input[l], m_pos)
    ELSE <<>>

\* the series with a point read so far for a label and a (project_id, instance_id)
PointsRead(l, key) ==
    {ts \in Range(SeriesRead(l)) : <<ts.project_id, ts.instance_id>> = key /\ ts.points # <<>>}

ValuesRead(l, key) == {Normalize(l, FirstPoint(ts)) : ts \in PointsRead(l, key)}

SetMax(S) == CHOOSE x \in S : \A y \in S : y <= x

\* C14: the value fetch_fleet_metrics holds for a metric and a
\* (project_id, instance_id) is the maximum over the series read for them,
\* whatever the order in which the series arrived.
C14_StoredValueIsMax ==
    \A i \in DOMAIN fleet_data : \A l \in Range(QueryLabels) :
        l \in DOMAIN fleet_data[i] =>
            /\ ValuesRead(l, KeyOf(fleet_data[i])) # {}
            /\ fleet_data[i][l] = SetMax(ValuesRead(l, KeyOf(fleet_data[i])))

C14_Witness ==
    /\ m_pc = "returned"
    /\ \E l \in Range(QueryLabels) :
          /\ Len(SeriesRead(l)) = 2
          /\ PointsRead(l, <<"proj-b", "77">>) = Range(SeriesRead(l))
          /\ FirstPoint(SeriesRead(l)[1]) > FirstPoint(SeriesRead(l)[2])
          /\ \E i \in DOMAIN fleet_data : l \in DOMAIN fleet_data[i]

\* C15: a CPU utilization fraction f is stored as 100 * f by fetch_fleet_metrics
\* (cpu_percent) and by _fetch_performance_metrics (cpu); a memory percent_used
\* value is stored unscaled by both.
C15_CpuScaledMemoryUnscaled ==
    /\ \A i \in DOMAIN fleet_data :
          /\ "cpu_percent" \in DOMAIN fleet_data[i] =>
                \E ts \in PointsRead("cpu_percent", KeyOf(fleet_data[i])) :
                    fleet_data[i]["cpu_percent"] = 100 * FirstPoint(ts)
          /\ "memory_percent" \in DOMAIN fleet_data[i] =>
                \E ts \in PointsRead("memory_percent", KeyOf(fleet_data[i])) :
                    fleet_data[i]["memory_percent"] = FirstPoint(ts)
    /\ \A id \in DOMAIN metrics_map :
          /\ "cpu" \in DOMAIN metrics_map[id] =>
                \E ts \in Range(ZoneSeries("cpu_percent")) :
                    /\ ts.instance_id = id /\ ts.points # <<>>
                    /\ metrics_map[id]["cpu"] = 100 * FirstPoint(ts)
          /\ "mem" \in DOMAIN metrics_map[id] =>
                \E ts \in Range(ZoneSeries("memory_percent")) :
                    /\ ts.instance_id = id /\ ts.points # <<>>
                    /\ metrics_map[id]["mem"] = FirstPoint(ts)

C15_Witness ==
    /\ m_pc = "zone_returned"
    /\ \E i \in DOMAIN fleet_data : {"cpu_percent", "memory_percent"} \subseteq DOMAIN fleet_data[i]
    /\ \E id \in DOMAIN metrics_map : {"cpu", "mem"} \subseteq DOMAIN metrics_map[id]

\* C16: a raising query never leaves fetch_fleet_metrics: every query is
\* still issued and the function returns; the handling of the failure changes
\* no stored value, no step changes a value of another metric, and the failed
\* metric holds only what its query yielded before it raised.
C16_FailingQueryIsIsolated ==
    /\ [](m_pc # "raised")
    /\ [](m_pc \in {"returned", "zone_returned"} => queried = QueryLabels)
    /\ [][m_logged' # m_logged => fleet_data' = fleet_data]_vars
    /\ [][\A i \in DOMAIN fleet_data : \A l \in DOMAIN fleet_data[i] :
            l # CurrentLabel =>
                /\ i \in DOMAIN fleet_data'
                /\ l \in DOMAIN fleet_data'[i]
                /\ fleet_data'[i][l] = fleet_data[i][l]]_vars
    /\ [](\A i \in DOMAIN fleet_data :
            (ts_fail # NoFailure /\ ts_fail.label \in DOMAIN fleet_data[i]) =>
                \E ts \in Range(Prefix(ts_input[ts_fail.label], ts_fail.at)) :
                    /\ <<ts.project_id, ts.instance_id>> = KeyOf(fleet_data[i])
                    /\ ts.points # <<>>
                    /\ fleet_data[i][ts_fail.label] = Normalize(ts_fail.label, FirstPoint(ts)))

C16_Witness ==
    /\ m_pc = "returned"
    /\ ts_fail.label = "memory_percent"
    /\ ts_fail.at < Len(ts_input["memory_percent"])
    /\ m_logged = <<"memory_percent">>
    /\ \E i \in DOMAIN fleet_data : "cpu_percent" \in DOMAIN fleet_data[i]

\* C17: every record of fetch_fleet_metrics carries a non-empty project_id and
\* instance_id, and carries a metric field exactly when a series with a point
\* was read for that metric and that key; a missing metric is absent, not 0.
C17_RecordsKeyedAndSparse ==
    \A i \in DOMAIN fleet_data :
        /\ fleet_data[i]["project_id"] # ""
        /\ fleet_data[i]["instance_id"] # ""
        /\ DOMAIN fleet_data[i] \subseteq {"project_id", "instance_id", "zone"} \cup Range(QueryLabels)
        /\ \A l \in Range(QueryLabels) :
              l \in DOMAIN fleet_data[i] <=> PointsRead(l, KeyOf(fleet_data[i])) # {}

C17_Witness ==
    /\ m_pc = "returned"
    /\ \E l \in Range(QueryLabels) : \E ts \in Range(SeriesRead(l)) : SkipSeries(ts)
    /\ \E i \in DOMAIN fleet_data :
          /\ "cpu_percent" \in DOMAIN fleet_data[i]
          /\ "memory_percent" \notin DOMAIN fleet_data[i]

MonitorEnded == mon_pc \in {"done", "failed"}

\* C18: when every identity search of a run yields an empty map or raises and
\* the metrics list is not empty, every sample gets the instance_name and
\* machine_type "unknown", the run completes, and the report it emits is not
\* empty and has one row per metric sample (the console table up to args.limit).
C18_UnknownIdentitiesStillReport ==
    (/\ MonitorEnded
     /\ metrics_data # <<>>
     /\ \A sc \in DOMAIN search_calls : search_calls[sc].results = <<>>) =>
        /\ \A i \in DOMAIN enriched_data :
              /\ enriched_data[i]["instance_name"] = "unknown"
              /\ enriched_data[i]["machine_type"] = "unknown"
        /\ mon_pc = "done"
        /\ args.json => Len(outputs.json) = Len(metrics_data)
        /\ args.csv => Len(outputs.csv) = Len(metrics_data)
        /\ args.html => Len(outputs.html) = Len(metrics_data)
        /\ ~args.json => /\ outputs.table # <<>>
                         /\ args.limit >= Len(metrics_data) => Len(outputs.table) = Len(metrics_data)

\* C19: a sample of project P with instance id I is enriched only with an
\* asset that project P holds under id I, whatever the order in which the
\* per-project maps were merged.
C19_JoinCarriesProject ==
    \A i \in DOMAIN enriched_data :
        enriched_data[i]["instance_name"] # "unknown" =>
            \E res \in Range(asset_inventory[ProjectScope(enriched_data[i]["project_id"])]) :
                /\ res.id = enriched_data[i]["instance_id"]
                /\ res.display_name = enriched_data[i]["instance_name"]
                /\ res.machine_type = enriched_data[i]["machine_type"]

\* C20: a search whose provider call or result iteration raises returns to its
\* caller: its result is the map of the resources read before the error, empty
\* when the error came first.
C20_SearchReturnsOnProviderError ==
    \A sc \in DOMAIN search_calls :
        ~client_error =>
            /\ ~search_calls[sc].raised
            /\ DOMAIN search_calls[sc].results = {res.id : res \in Range(ResourcesYielded(sc))} \ {""}
            /\ \A id \in DOMAIN search_calls[sc].results :
                  \E res \in Range(ResourcesYielded(sc)) :
                      /\ res.id = id
                      /\ search_calls[sc].results[id].name = res.display_name
                      /\ search_calls[sc].results[id].project = res.project

C20_Witness ==
    /\ mon_pc = "done"
    /\ \E sc \in DOMAIN search_calls :
          /\ asset_fail[sc].at = 1
          /\ Len(asset_inventory[sc]) = 2
          /\ Cardinality(DOMAIN search_calls[sc].results) = 1
    /\ \E i \in DOMAIN enriched_data : enriched_data[i]["instance_name"] # "unknown"

\* C12: the pools are separate.  A queued zone call of a running audit can
\* start whenever its own pool has a free worker, whatever the other projects
\* and main's executor hold; a step of one project's zone pool changes neither
\* main's executor nor another project's pool; and the fan-out of a running
\* audit whose calls return completes even when the walker calls of every
\* other project are blocked.
C12_PoolsAreSeparate ==
    /\ [](\A p \in Range(PROJECTS) :
            (/\ p \in Range(target_projects)
             /\ fut[p] = "running"
             /\ zone_queue[p] # <<>>
             /\ Cardinality(zone_running[p]) < ComputeMaxWorkers) => ENABLED StartZone(p))
    /\ [][\A p \in Range(target_projects) :
            zone_running'[p] # zone_running[p] =>
                /\ fut' = fut
                /\ \A q \in Range(target_projects) \ {p} :
                      zone_running'[q] = zone_running[q] /\ zone_queue'[q] = zone_queue[q]]_vars
    /\ \A p \in Range(PROJECTS) :
          (p \in Range(target_projects) /\ p \notin blocked /\ fut[p] = "running")
              ~> (p \in Range(target_projects) /\ FanoutComplete(p))

C12_Witness ==
    /\ \E p \in Range(target_projects) :
          /\ FanoutComplete(p)
          /\ blocked = Range(target_projects) \ {p}
          /\ \E q \in blocked : fut[q] = "running" /\ zone_running[q] = Range(PoolZones)

\* the zone calls issued so far
ZonesCalled == {c[2] : c \in {d \in DOMAIN calls : d[1] = "compute.list_instances" /\ calls[d] >= 1}}

\* C25: the zones submitted by run_audit_for_project are exactly
\* "<region>-<suffix>" for every requested region and every suffix of a, b, c, f:
\* 4 * |regions| zones in region-major order, and no other zone is ever called.
C25_ZoneExpansionIsFixed ==
    /\ (pc = FanPc("compute") /\ running = {} /\ ZonesCalled = {}) =>
          /\ Len(queue) = 4 * Len(regions)
          /\ \A i \in DOMAIN regions : \A j \in 1..4 :
                queue[(i - 1) * 4 + j] = regions[i] \o "-" \o <<"a", "b", "c", "f">>[j]
    /\ ZonesCalled \subseteq {regions[i] \o "-" \o sfx : i \in DOMAIN regions, sfx \in {"a", "b", "c", "f"}}
    /\ pc = "images" =>
          ZonesCalled = {regions[i] \o "-" \o sfx : i \in DOMAIN regions, sfx \in {"a", "b", "c", "f"}}

C25_Witness ==
    /\ pc = "images"
    /\ Len(regions) = FanoutRegions
    /\ Cardinality(ZonesCalled) = 4 * FanoutRegions

\* the per-project searches of the run that returned a map
ProjectSearches == {ProjectScope(pid) : pid \in ProjectsToScan}

\* C21: when the organization-wide search raised or yielded an empty map, the
\* search is called exactly once for every project of the metrics, and once
\* the fan-out is over the identity map is the union of the maps the
\* per-project calls returned: a failed call adds nothing and removes nothing.
C21_FallbackMergesProjectMaps ==
    (/\ OrgScope \in DOMAIN search_calls
     /\ search_calls[OrgScope].raised \/ search_calls[OrgScope].results = <<>>
     /\ mon_pc \in {"output", "done", "failed"}) =>
        /\ DOMAIN search_calls = {OrgScope} \cup ProjectSearches
        /\ \A sc \in DOMAIN search_calls : search_calls[sc].n = 1
        /\ DOMAIN assets =
              UNION {DOMAIN search_calls[sc].results : sc \in {x \in ProjectSearches : ~search_calls[x].raised}}
        /\ \A id \in DOMAIN assets :
              \E sc \in ProjectSearches :
                  /\ ~search_calls[sc].raised
                  /\ id \in DOMAIN search_calls[sc].results
                  /\ assets[id] = search_calls[sc].results[id]

C21_Witness ==
    /\ mon_pc = "done"
    /\ OrgScope \in DOMAIN search_calls
    /\ search_calls[OrgScope].results = <<>>
    /\ Cardinality(ProjectsToScan) = 2
    /\ \E sc \in ProjectSearches : asset_fail[sc] # NoAssetFailure /\ asset_inventory[sc] # <<>>
    /\ assets # <<>>

\* position of a candidate in a list that holds it once
PositionIn(l, z) == CHOOSE i \in DOMAIN l : l[i] = z

\* s holds the elements of l by non-increasing cost, equal costs in the order of l
StableDescending(s, l) ==
    /\ Len(s) = Len(l)
    /\ \A z \in Range(l) : Count(z, s) = Count(z, l)
    /\ \A i, j \in DOMAIN s :
          i < j => /\ s[i].monthly_cost_est >= s[j].monthly_cost_est
                   /\ s[i].monthly_cost_est = s[j].monthly_cost_est =>
                          PositionIn(l, s[i]) < PositionIn(l, s[j])

\* C22: the report step leaves hunter.zombies, and writes the report, sorted by
\* estimated monthly cost in non-increasing order, candidates of equal cost
\* in the order in which they were appended.
C22_ReportSortedStable ==
    [][(z_pc = "report" /\ z_pc' = "done") =>
          /\ StableDescending(zombies', zombies)
          /\ z_output'.rows = zombies']_vars

C22_Witness ==
    /\ z_pc = "done"
    /\ Len(z_output.rows) >= 3
    /\ \E i \in 1..(Len(z_output.rows) - 1) :
          /\ z_output.rows[i].monthly_cost_est = z_output.rows[i + 1].monthly_cost_est
          /\ z_output.rows[i].project_id = "proj-b"
          /\ z_output.rows[i + 1].project_id = "proj-a"

\* the detector task whose call raises into its except clause
RaisingTask == IF hunt_fail.stage = "list_time_series" THEN <<>> ELSE hunt_fail.task

\* the items a detector task looks at before its provider call raises
ItemsSeen(t) == IF t = RaisingTask THEN Prefix(Items(t), hunt_fail.at) ELSE Items(t)

\* C23: when the hunt is over every detector task has returned, and the list
\* holds, exactly once, every candidate of every detector task, the failing
\* task's up to its failure: the failure of one detector of one project takes
\* nothing from the other detectors or the other projects.
C23_DetectorFailuresAreIsolated ==
    /\ z_pc \in {"report", "done"} =>
          /\ hunt_done = HuntTasks(hunt_projects)
          /\ \A t \in HuntTasks(hunt_projects) : \A i \in DOMAIN ItemsSeen(t) :
                \A z \in Range(Inspect(t, Items(t)[i])) : Count(z, zombies) = 1
    /\ z_pc = "done" /\ zombies # <<>> => z_output.kind = "report" /\ Len(z_output.rows) = Len(zombies)

C23_Witness ==
    /\ z_pc = "done"
    /\ hunt_log # <<>>
    /\ \E z \in Range(zombies) :
          z.project_id = RaisingTask[1] /\ z.resource_type # "Disk" /\ RaisingTask[2] = "disks"
    /\ \E z \in Range(zombies) : z.project_id # RaisingTask[1]

\* C24: hunter.zombies is changed by the coordinating thread only, never by a
\* step of a detector task.
C24_OnlyCoordinatorMerges ==
    [][zombies' # zombies => (hunt_pos' = hunt_pos /\ hunt_done' = hunt_done)]_vars

\* the bucket detector task of a project
BucketTask(pid) == <<pid, "buckets">>

\* the sent-bytes sum the egress query gave for a bucket: the first point of the
\* last series read for it, 0 when none was read
SentBytes(pid, b) ==
    LET read == SeriesScanned(pid)
        S == {i \in DOMAIN read : read[i].bucket_name = b.name /\ read[i].points # <<>>}
    IN  IF S = {} THEN 0 ELSE read[SetMax(S)].points[1]

Reported(pid, b) ==
    Cardinality({i \in DOMAIN zombies :
        /\ zombies[i].resource_type = "Bucket"
        /\ zombies[i].project_id = pid
        /\ zombies[i].name = b.name})

\* C28: once hunt_buckets has returned without its listing or client call
\* raising, a bucket is in the list, once, exactly when it holds at least
\* 1 GiB and its sent-bytes sum is below 1,000,000, a bucket without a sum
\* counting as 0; so when the egress query raised before its first series,
\* every bucket of at least 1 GiB is in the list.
C28_IdleBucketRule ==
    \A pid \in Range(hunt_projects) :
        (BucketTask(pid) \in hunt_done /\ RaisingTask # BucketTask(pid)) =>
            /\ \A b \in Range(hunt_inventory[pid].buckets) :
                  Reported(pid, b) =
                      IF b.size_bytes >= 1073741824 /\ SentBytes(pid, b) < 1000000 THEN 1 ELSE 0
            /\ (hunt_fail.task = BucketTask(pid) /\ hunt_fail.at = 0) =>
                  \A b \in Range(hunt_inventory[pid].buckets) :
                      b.size_bytes >= 1073741824 => Reported(pid, b) = 1

C28_Witness ==
    /\ BucketTask("proj-a") \in hunt_done
    /\ hunt_fail = [task |-> BucketTask("proj-a"), stage |-> "list_time_series", at |-> 0]
    /\ \E ts \in Range(hunt_inventory["proj-a"].activity) :
          ts.bucket_name = "b1" /\ ts.points = <<1000000>>
    /\ Len(hunt_inventory["proj-a"].buckets) = 2
    /\ Len(zombies) = 2

\* the instance _install_agent was called with
Instance == candidates[1]

\* C26: _install_agent called with a name that starts with "gke-", the name
\* "unknown", or a missing name, zone or project has launched no install
\* command and has returned a message that begins with "Skipping".
C26_NoInstallOnGuardedInstance ==
    (/\ fix_pc = "returned"
     /\ \/ Falsy(Instance, "instance_name") \/ Falsy(Instance, "zone") \/ Falsy(Instance, "project_id")
        \/ Instance["instance_name"] = "unknown"
        \/ StartsWith(Instance["instance_name"], "gke-")) =>
        /\ installs = <<>>
        /\ Len(fix_messages) = 1
        /\ StartsWith(fix_messages[1], "[yellow]Skipping ")

C26_Witness ==
    /\ fix_pc = "returned"
    /\ Instance = ("instance_name" :> "gke-node-pool-1") @@ ("zone" :> "us-central1-a")
                  @@ ("project_id" :> "proj-1")
    /\ installs = <<>>
    /\ fix_messages = <<"[yellow]Skipping gke-node-pool-1: GKE Node (COS not supported)[/yellow]">>

\* the samples the claim calls candidates, by position in the metrics
CandidateSamples ==
    {i \in DOMAIN fix_input.metrics :
        LET m == fix_input.metrics[i]
            known == m["instance_id"] \in DOMAIN fix_input.assets
            name == IF known THEN fix_input.assets[m["instance_id"]].name ELSE "unknown"
        IN  /\ "cpu_percent" \in DOMAIN m /\ m["cpu_percent"] > 100
            /\ "memory_percent" \notin DOMAIN m
            /\ name # "unknown"
            /\ ~StartsWith(name, "gke-")}

InstallsOf(i) == Cardinality({k \in DOMAIN installs : installs[k].candidate = i})

\* C27: no _install_agent call and no install command precedes a positive
\* answer to the one confirmation prompt; a run that ends without --monitor,
\* with a failed metrics fetch, without a candidate or with a declined prompt
\* has launched none; a confirmed run has called the installer exactly once
\* per candidate, and run the install command once for each of them that
\* carries a zone.
C27_InstallsOnlyAfterConfirmation ==
    /\ confirm_asked <= 1
    /\ (agent_calls # <<>> \/ installs # <<>> \/ install_queue # {}) =>
          /\ confirm_asked = 1
          /\ fix_input.answer /\ fix_input.monitor /\ ~fix_input.metrics_raises
    /\ fix_pc \in {"confirm", "launch", "installing"} \/ (fix_pc = "done" /\ confirm_asked = 1) =>
          Len(candidates) = Cardinality(CandidateSamples)
    /\ fix_pc = "done" =>
          IF fix_input.monitor /\ ~fix_input.metrics_raises /\ CandidateSamples # {} /\ fix_input.answer
          THEN /\ Len(agent_calls) = Len(candidates)
               /\ \A i \in DOMAIN candidates :
                     /\ Count(i, agent_calls) = 1
                     /\ InstallsOf(i) = IF candidates[i]["zone"] = "" THEN 0 ELSE 1
          ELSE agent_calls = <<>> /\ installs = <<>>

C27_Witness ==
    /\ fix_pc = "done"
    /\ fix_input.answer
    /\ Len(candidates) = 2
    /\ Len(agent_calls) = 2
    /\ Len(fix_input.metrics) = 7
    /\ Len(installs) >= 1

\* the scope a step calls the walker with
CalledScope == IF w_pc' = "attempt" THEN w_call'.scope ELSE w_last'.scope

\* C29: for search_all_instances, a call for a scope that has an entry in the
\* store ends at once with the stored map and without a provider request,
\* whatever the provider would answer now; a call that returns stores the map
\* it returns, the empty map of a caught provider error included; a call that
\* raises stores nothing; and an entry only goes when the store is cleared.
C29_CacheIsReadThrough ==
    [][w_call.walker = "asset.search_all_instances" =>
          /\ (w_count'.calls # w_count.calls /\ CalledScope \in DOMAIN w_cache) =>
                /\ w_pc' = "idle"
                /\ w_last'.result = w_cache[CalledScope]
                /\ ~w_last'.raised /\ w_last'.contacts = 0
                /\ w_provider' = w_provider /\ w_cache' = w_cache
          /\ (w_pc = "attempt" /\ w_pc' = "idle") =>
                IF w_last'.raised
                THEN w_cache' = w_cache /\ w_last'.scope \notin DOMAIN w_cache'
                ELSE /\ w_last'.scope \in DOMAIN w_cache'
                     /\ w_cache'[w_last'.scope] = w_last'.result
                     /\ \A sc \in DOMAIN w_cache : sc \in DOMAIN w_cache' /\ w_cache'[sc] = w_cache[sc]
          /\ (\E sc \in DOMAIN w_cache : sc \notin DOMAIN w_cache' \/ w_cache'[sc] # w_cache[sc]) =>
                (w_cache' = <<>> /\ w_pc = "idle" /\ w_count' = w_count)]_vars

C29_Witness ==
    /\ w_call.walker = "asset.search_all_instances"
    /\ w_pc = "idle"
    /\ w_last # <<>>
    /\ w_last.attempts = 0
    /\ w_last.result = <<>>
    /\ w_provider.fault = "none"
    /\ w_provider.resources[w_last.scope] # <<>>
    /\ w_count.calls = 2

\* the attempts of a call that raised out of the function body
Raised(walker, faults) ==
    {i \in DOMAIN faults :
        faults[i] = "client" \/ (faults[i] = "provider" /\ walker \notin CatchesProviderErrors)}

====
